---- MODULE Spec2Model ----
(***************************************************************************)
(* EPG guide handling of the IPTV app: the XMLTV parser and its date       *)
(* decoding, the fetch through the CORS proxies, the temporal queries over *)
(* a channel's program list, the lookups that match a playlist channel to  *)
(* a guide channel, and the EPG part of the zustand store (loadEPG,        *)
(* clearEPG, auto-refresh) together with the EPGGrabber component that     *)
(* starts loads and owns the refresh timer.                                *)
(*                                                                         *)
(* Text is a sequence of one-character strings.  Instants are whole        *)
(* seconds since the epoch (Date.getTime() is 1000 times that); an         *)
(* Invalid Date, and every other JavaScript NaN, is the value NaN.         *)
(***************************************************************************)
EXTENDS Integers, Sequences, FiniteSets, TLC

\* ------------------------------------------------------------------ bounds
MaxProgrammeEls == 3
MaxPrograms == 2
MaxTime == 3
MaxLoads == 2
MaxClock == 2
MaxGuideChannels == 2
MaxTimers == 2

\* the most custom sources the catalog holds
MaxSources == 2

\* the most playlists saved and the most fetches the auto-update makes
MaxPlaylists == 2

MaxUpdates == 2

\* the most MediaRecorder objects made and the most chunks held
MaxRecorders == 2

MaxChunks == 2

\* --------------------------------------------------------- JavaScript text
NaN == -2000000000

Digits == <<"0", "1", "2", "3", "4", "5", "6", "7", "8", "9">>

IsDigit(c) == \E i \in 1..10 : Digits[i] = c

DigitVal(c) == (CHOOSE i \in 1..10 : Digits[i] = c) - 1

IsSpace(c) == c = " "

\* String.prototype.substring(a, b), indices from 0, clamped to the length
Substring(s, a, b) ==
  LET lo == IF a > Len(s) THEN Len(s) ELSE a
      hi == IF b > Len(s) THEN Len(s) ELSE b
  IN  IF lo >= hi THEN <<>> ELSE SubSeq(s, lo + 1, hi)

RECURSIVE TrimStart(_)
TrimStart(s) ==
  IF s # <<>> /\ IsSpace(Head(s)) THEN TrimStart(Tail(s)) ELSE s

RECURSIVE TrimEnd(_)
TrimEnd(s) ==
  IF s # <<>> /\ IsSpace(s[Len(s)]) THEN TrimEnd(SubSeq(s, 1, Len(s) - 1)) ELSE s

Trim(s) == TrimEnd(TrimStart(s))

\* value of the longest prefix of decimal digits of s, continuing from acc
RECURSIVE DigitPrefix(_, _)
DigitPrefix(s, acc) ==
  IF s # <<>> /\ IsDigit(Head(s))
  THEN DigitPrefix(Tail(s), acc * 10 + DigitVal(Head(s)))
  ELSE acc

\* parseInt(s): leading white space, an optional sign, then decimal digits;
\* NaN when no digit follows
ParseInt(s) ==
  LET t == TrimStart(s)
      neg == t # <<>> /\ Head(t) = "-"
      u == IF t # <<>> /\ Head(t) \in {"+", "-"} THEN Tail(t) ELSE t
  IN  IF u = <<>> \/ ~IsDigit(Head(u)) THEN NaN
      ELSE IF neg THEN 0 - DigitPrefix(u, 0) ELSE DigitPrefix(u, 0)

\* ------------------------------------------------------------------- dates
\* days from 1970-01-01 to the first day of month m (0..11) of year y
DayFromYearMonth(y, m) ==
  LET mm == m + 1
      yy == IF mm <= 2 THEN y - 1 ELSE y
      era == yy \div 400
      yoe == yy - era * 400
      mp == IF mm > 2 THEN mm - 3 ELSE mm + 9
      doy == (153 * mp + 2) \div 5
      doe == yoe * 365 + yoe \div 4 - yoe \div 100 + doy
  IN  era * 146097 + doe - 719468

\* Date.UTC(year, month, day, hour, minute, second), in seconds
DateUTC(year, month, day, hour, minute, second) ==
  IF NaN \in {year, month, day, hour, minute, second} THEN NaN
  ELSE LET yr == IF year >= 0 /\ year <= 99 THEN 1900 + year ELSE year
           ym == yr + (month \div 12)
           mn == month % 12
           days == DayFromYearMonth(ym, mn) + day - 1
       IN  ((days * 24 + hour) * 60 + minute) * 60 + second

\* the match of /([+-]\d{4})$/ on s, or <<>> when there is none
TzMatch(s) ==
  LET n == Len(s)
  IN  IF n >= 5 /\ s[n - 4] \in {"+", "-"}
         /\ \A i \in (n - 3)..n : IsDigit(s[i])
      THEN SubSeq(s, n - 4, n)
      ELSE <<>>

parseXMLTVDate(dateStr) ==
  LET clean == Trim(dateStr)
      year == ParseInt(Substring(clean, 0, 4))
      monthRaw == ParseInt(Substring(clean, 4, 6))
      month == IF monthRaw = NaN THEN NaN ELSE monthRaw - 1
      day == ParseInt(Substring(clean, 6, 8))
      hour == ParseInt(Substring(clean, 8, 10))
      minute == ParseInt(Substring(clean, 10, 12))
      secRaw == ParseInt(Substring(clean, 12, 14))
      second == IF secRaw = NaN THEN 0 ELSE secRaw
      tzStr == TzMatch(clean)
      base == DateUTC(year, month, day, hour, minute, second)
  IN  IF tzStr # <<>>
      THEN LET tzHours == ParseInt(Substring(tzStr, 0, 3))
               tzMinutes == ParseInt(<<tzStr[1]>> \o Substring(tzStr, 3, 5))
           IN  IF base = NaN THEN NaN
               ELSE base - (tzHours * 60 + tzMinutes) * 60
      ELSE base

\* ------------------------------------------------ JavaScript Map and sort
\* A Map is the sequence of its <<key, value>> entries in insertion order.
MapHas(m, k) == \E i \in 1..Len(m) : m[i][1] = k

MapGet(m, k) == m[CHOOSE i \in 1..Len(m) : m[i][1] = k][2]

\* Map.prototype.set: an existing key keeps its position
MapSet(m, k, v) ==
  IF MapHas(m, k)
  THEN [i \in 1..Len(m) |-> IF m[i][1] = k THEN <<k, v>> ELSE m[i]]
  ELSE Append(m, <<k, v>>)

\* a - b on numbers
JsSub(a, b) == IF a = NaN \/ b = NaN THEN NaN ELSE a - b

\* a comparator result as Array.prototype.sort reads it: NaN counts as +0
SortCompare(v) == IF v = NaN THEN 0 ELSE v

\* (a, b) => a.start.getTime() - b.start.getTime()
compareStart(a, b) == SortCompare(JsSub(a.start, b.start))

\* ECMAScript's consistent-comparator conditions on the elements of list
ConsistentComparator(list) ==
  \A i, j, k \in 1..Len(list) :
    LET ab == compareStart(list[i], list[j])
        bc == compareStart(list[j], list[k])
        ac == compareStart(list[i], list[k])
    IN  /\ (ab = 0 /\ bc = 0) => ac = 0
        /\ (ab < 0 /\ bc < 0) => ac < 0
        /\ (ab > 0 /\ bc > 0) => ac > 0

\* x put into the sorted list after every element that does not follow it
RECURSIVE InsertStable(_, _)
InsertStable(sorted, x) ==
  IF sorted = <<>> THEN <<x>>
  ELSE IF compareStart(Head(sorted), x) <= 0
       THEN <<Head(sorted)>> \o InsertStable(Tail(sorted), x)
       ELSE <<x>> \o sorted

RECURSIVE StableSort(_)
StableSort(list) ==
  IF list = <<>> THEN <<>>
  ELSE InsertStable(StableSort(SubSeq(list, 1, Len(list) - 1)), list[Len(list)])

Rearrangements(list) ==
  {[i \in 1..Len(list) |-> list[p[i]]] : p \in Permutations(1..Len(list))}

\* progs.sort(compareStart): stable under a consistent comparator, and an
\* implementation-defined order of the same elements otherwise
SortByStart(list) ==
  IF ConsistentComparator(list) THEN {StableSort(list)} ELSE Rearrangements(list)

\* ------------------------------------------------------------ the parser
\* An attribute or child text that is missing or empty is <<>>; getAttribute
\* and getTextContent turn both into undefined.
Undefined == <<>>

getAttribute(el, attr) == el[attr]

\* getTextContent(element, tagName): the trimmed text of the first such child
getTextContent(el, tagName) == Trim(el[tagName])

Untitled == <<"U", "n", "t", "i", "t", "l", "e", "d">>

\* lines 197-209: the channel elements
RECURSIVE ReadChannels(_, _)
ReadChannels(els, maps) ==
  IF els = <<>> THEN maps
  ELSE LET el == Head(els)
           id == getAttribute(el, "id")
           name == IF getTextContent(el, "displayName") # Undefined
                   THEN getTextContent(el, "displayName") ELSE id
       IN  IF id = Undefined THEN ReadChannels(Tail(els), maps)
           ELSE ReadChannels(Tail(els),
                  [channels |-> MapSet(maps.channels, id, [id |-> id, name |-> name]),
                   programs |-> MapSet(maps.programs, id, <<>>)])

\* lines 211-240: the programme elements
RECURSIVE ReadProgrammes(_, _)
ReadProgrammes(els, programs) ==
  IF els = <<>> THEN programs
  ELSE LET el == Head(els)
           channelId == getAttribute(el, "channel")
           startStr == getAttribute(el, "start")
           stopStr == getAttribute(el, "stop")
           program == [channelId |-> channelId,
                       title |-> IF getTextContent(el, "title") # Undefined
                                 THEN getTextContent(el, "title") ELSE Untitled,
                       start |-> parseXMLTVDate(startStr),
                       stop |-> parseXMLTVDate(stopStr)]
           withKey == IF MapHas(programs, channelId) THEN programs
                      ELSE MapSet(programs, channelId, <<>>)
       IN  IF channelId = Undefined \/ startStr = Undefined \/ stopStr = Undefined
           THEN ReadProgrammes(Tail(els), programs)
           ELSE ReadProgrammes(Tail(els),
                  MapSet(withKey, channelId, Append(MapGet(withKey, channelId), program)))

\* lines 242-245: every list of the map sorted in place
SortAll(programs) ==
  {m \in [1..Len(programs) -> UNION {{<<programs[i][1], l>> : l \in SortByStart(programs[i][2])}
                                       : i \in 1..Len(programs)}] :
     \A i \in 1..Len(programs) :
        m[i][1] = programs[i][1] /\ m[i][2] \in SortByStart(programs[i][2])}

\* parseXMLTV(xmlText): the results the call can have on document d
parseXMLTV(d) ==
  IF ~d.wellFormed
  THEN {[ok |-> FALSE, error |-> "Invalid XMLTV format"]}
  ELSE LET read == ReadChannels(d.channelEls, [channels |-> <<>>, programs |-> <<>>])
           filled == ReadProgrammes(d.programmeEls, read.programs)
       IN  {[ok |-> TRUE, data |-> [channels |-> read.channels, programs |-> sorted]]
              : sorted \in SortAll(filled)}

\* ------------------------------------------------- documents of the model
Day20240101 == <<"2", "0", "2", "4", "0", "1", "0", "1">>

\* 10:00:00 UTC, no offset
Stamp1000 == Day20240101 \o <<"1", "0", "0", "0", "0", "0">>

\* 11:30:00 at +02:00, which is 09:30:00 UTC
Stamp1130East == Day20240101 \o <<"1", "1", "3", "0", "0", "0", " ", "+", "0", "2", "0", "0">>

\* 12:00:00 UTC
Stamp1200 == Day20240101 \o <<"1", "2", "0", "0", "0", "0">>

\* a start attribute that is no XMLTV date
StampBad == <<"n", "o", "w">>

ProgrammeEls ==
  [channel : {<<"a">>, <<"b">>, Undefined},
   start : {Stamp1000, Stamp1130East, StampBad, Undefined},
   stop : {Stamp1200, Undefined},
   title : {Undefined}]

ChannelA == [id |-> <<"a">>, displayName |-> <<"A", " ">>]

ChannelNoId == [id |-> Undefined, displayName |-> <<"X">>]

ChannelElLists == {<<>>, <<ChannelA>>, <<ChannelNoId, ChannelA>>}

\* a document the DOM parser reports a parsererror for
Malformed == [wellFormed |-> FALSE, channelEls |-> <<>>, programmeEls |-> <<>>]

Docs ==
  [wellFormed : {TRUE},
   channelEls : ChannelElLists,
   programmeEls : UNION {[1..n -> ProgrammeEls] : n \in 0..MaxProgrammeEls}]
  \cup {Malformed}

Null == [ok |-> FALSE, error |-> "none"]

\* -------------------------------------------------------- temporal queries
\* a <= b and a > b on numbers: both are false when either side is NaN
JsLe(a, b) == a # NaN /\ b # NaN /\ a <= b

JsGt(a, b) == a # NaN /\ b # NaN /\ a > b

\* the result of Array.prototype.find: the first element passing the test,
\* or undefined
NotFound == [found |-> FALSE]

Found(p) == [found |-> TRUE, program |-> p]

\* index of the first element of the list whose test passed, 0 when none did;
\* passes[i] is the outcome of the test on list[i]
FindIndex(passes) ==
  IF \E i \in 1..Len(passes) : passes[i]
  THEN CHOOSE i \in 1..Len(passes) : passes[i] /\ \A j \in 1..(i - 1) : ~passes[j]
  ELSE 0

Find(list, passes) ==
  IF FindIndex(passes) = 0 THEN NotFound ELSE Found(list[FindIndex(passes)])

\* variants of the lookups and of the progress computation, each with one slip
getCurrentProgramIgnoringStop(programs, time) ==
  Find(programs, [i \in 1..Len(programs) |-> JsLe(programs[i].start, time)])

getCurrentProgramClosedStop(programs, time) ==
  Find(programs, [i \in 1..Len(programs) |->
                    JsLe(programs[i].start, time) /\ JsLe(time, programs[i].stop)])

getNextProgramFromNow(programs, time) ==
  Find(programs, [i \in 1..Len(programs) |-> JsLe(time, programs[i].start)])

getCurrentProgram(programs, time) ==
  Find(programs, [i \in 1..Len(programs) |->
                    JsLe(programs[i].start, time) /\ JsGt(programs[i].stop, time)])

getNextProgram(programs, time) ==
  Find(programs, [i \in 1..Len(programs) |-> JsGt(programs[i].start, time)])

\* A percentage is the exact fraction n / d, d > 0.  The code computes it in
\* doubles; rounding keeps the order and the values 0, 50 and 100.
Percent(n, d) == [n |-> n, d |-> d]

PctLe(a, b) == a.n * b.d <= b.n * a.d

PctIs(a, k) == a.n = k * a.d

ClampPercentNoFloor(elapsed, duration) ==
  LET raw == elapsed * 100
  IN  Percent(IF raw > 100 * duration THEN 100 * duration ELSE raw, duration)

ClampPercentNoCeiling(elapsed, duration) ==
  LET raw == elapsed * 100
  IN  Percent(IF raw < 0 THEN 0 ELSE raw, duration)

\* Math.min(100, Math.max(0, (elapsed / duration) * 100)), duration > 0
ClampPercent(elapsed, duration) ==
  LET raw == elapsed * 100
      lo == IF raw < 0 THEN 0 ELSE raw
  IN  Percent(IF lo > 100 * duration THEN 100 * duration ELSE lo, duration)

getProgramProgress(program, time) ==
  LET elapsed == time - program.start
      duration == program.stop - program.start
  IN  IF duration <= 0 THEN Percent(0, 1) ELSE ClampPercent(elapsed, duration)

\* instants of the model; Date values may also be invalid
Instants == 0..MaxTime

Dates == Instants \cup {NaN}

\* program lists as the parser can leave them, in any order
ProgramLists ==
  UNION {[1..n -> [start : Dates, stop : Dates]] : n \in 0..MaxPrograms}

NoCall == [op |-> "none"]

\* ------------------------------------------------------ fetching a guide
\* String.prototype.endsWith
EndsWith(s, suffix) ==
  Len(s) >= Len(suffix) /\ SubSeq(s, Len(s) - Len(suffix) + 1, Len(s)) = suffix

\* the retrieval endpoints: the url itself, then CORS_PROXIES in order
CORS_PROXIES == <<"corsproxy.io", "api.allorigins.win">>

\* What an endpoint answers when contacted: fetch rejects ("throw"), or
\* resolves with a status (ok or not) and a body.  A body is a byte stream
\* that is or is not valid gzip, holding text that is empty, is no XML, or is
\* the XMLTV document doc.
Texts(docs) ==
  {[kind |-> "empty"], [kind |-> "other"]} \cup {[kind |-> "xml", doc |-> d] : d \in docs}

Bodies(docs) == [gzip : BOOLEAN, text : Texts(docs)]

Replies(docs) ==
  {[kind |-> "throw"]}
    \cup [kind : {"status"}, ok : BOOLEAN, body : Bodies(docs)]

Answers(reply) == reply.kind = "status" /\ reply.ok

\* lines 289-298: the first proxy of the list that answers ok
RECURSIVE TryProxies(_, _, _)
TryProxies(proxies, net, attempts) ==
  IF proxies = <<>>
  THEN [ok |-> FALSE,
        error |-> "Failed to fetch EPG data. Direct fetch and CORS proxies all failed.",
        attempts |-> attempts]
  ELSE IF Answers(net[Head(proxies)])
       THEN [ok |-> TRUE, response |-> net[Head(proxies)],
             attempts |-> Append(attempts, Head(proxies))]
       ELSE TryProxies(Tail(proxies), net, Append(attempts, Head(proxies)))

\* the fetch with one slip: the direct attempt is left out
fetchWithCorsProxySkippingDirect(url, net) == TryProxies(CORS_PROXIES, net, <<>>)

\* fetchWithCorsProxy(url) when the endpoints answer as net says
fetchWithCorsProxy(url, net) ==
  IF Answers(net["direct"])
  THEN [ok |-> TRUE, response |-> net["direct"], attempts |-> <<"direct">>]
  ELSE TryProxies(CORS_PROXIES, net, <<"direct">>)

\* decompressGzip(response): the text, or a throw
decompressGzip(response, hasDecompressionStream) ==
  IF ~hasDecompressionStream
  THEN [ok |-> FALSE, error |-> "Browser does not support DecompressionStream for .gz files"]
  ELSE IF ~response.body.gzip
       THEN [ok |-> FALSE, error |-> "stream error"]
       ELSE [ok |-> TRUE, text |-> response.body.text]

Failure(message) == [ok |-> FALSE, error |-> message]

GzSuffix == <<".", "g", "z">>

GzipSuffix == <<".", "g", "z", "i", "p">>

\* loadEPGFromURL(url): the results the call can have
loadEPGFromURL(url, net, hasDecompressionStream) ==
  LET fetched == fetchWithCorsProxy(url, net)
      isGzipped == EndsWith(url, GzSuffix) \/ EndsWith(url, GzipSuffix)
      inflated == decompressGzip(fetched.response, hasDecompressionStream)
      \* response.text() of a gzip byte stream is text that is no XML
      text == IF isGzipped THEN inflated.text
              ELSE IF fetched.response.body.gzip THEN [kind |-> "other"]
              ELSE fetched.response.body.text
  IN  IF ~fetched.ok THEN {Failure(fetched.error)}
      ELSE IF isGzipped /\ ~inflated.ok
      THEN {Failure("Failed to decompress gzipped EPG file. Try a non-.gz URL.")}
      ELSE IF text.kind = "empty" THEN {Failure("EPG file is empty")}
      ELSE IF text.kind # "xml" THEN {Failure("EPG response is not valid XML.")}
      ELSE parseXMLTV(text.doc)

\* ------------------------------------------------------- the store's world
UrlXml == <<"e", ".", "x", "m", "l">>

UrlGz == <<"e", ".", "g", "z">>

Urls == {UrlXml, UrlGz}

\* two guides of one channel each, the first with its programmes out of order
DocOne ==
  [wellFormed |-> TRUE, channelEls |-> <<ChannelA>>,
   programmeEls |-> <<[channel |-> <<"a">>, start |-> Stamp1000, stop |-> Stamp1200,
                       title |-> <<"N">>],
                      [channel |-> <<"a">>, start |-> Stamp1130East, stop |-> Stamp1000,
                       title |-> Undefined]>>]

DocTwo ==
  [wellFormed |-> TRUE, channelEls |-> <<>>,
   programmeEls |-> <<[channel |-> <<"b">>, start |-> Stamp1000, stop |-> Stamp1200,
                       title |-> Undefined]>>]

\* a well-formed document with no channel and no programme: <tv></tv>
DocEmpty == [wellFormed |-> TRUE, channelEls |-> <<>>, programmeEls |-> <<>>]

StoreDocs == {DocOne, DocTwo, DocEmpty, Malformed}

Endpoints == {"direct"} \cup {CORS_PROXIES[i] : i \in 1..Len(CORS_PROXIES)}

\* what the three endpoints would answer to one load
Nets == [{"direct"} \cup {CORS_PROXIES[i] : i \in 1..Len(CORS_PROXIES)} -> Replies(StoreDocs)]

\* every result loadEPGFromURL(url) can have, over what the endpoints answer
\* and whether the browser has DecompressionStream
LoadResults ==
  [url \in Urls |->
     UNION {loadEPGFromURL(url, net, hasDecompressionStream)
              : net \in Nets, hasDecompressionStream \in BOOLEAN}]

\* null, for a url, an error message, a refresh time and the guide
NullUrl == <<>>

NullError == ""

NullTime == 0

NullData == [channels |-> "null"]

\* ------------------------------------------- matching a playlist channel
UpperCase == <<"A", "B", "C", "D", "E", "F", "G", "H", "I", "J", "K", "L", "M",
               "N", "O", "P", "Q", "R", "S", "T", "U", "V", "W", "X", "Y", "Z">>

LowerCase == <<"a", "b", "c", "d", "e", "f", "g", "h", "i", "j", "k", "l", "m",
               "n", "o", "p", "q", "r", "s", "t", "u", "v", "w", "x", "y", "z">>

IsLower(c) == \E i \in 1..26 : LowerCase[i] = c

ToLowerChar(c) ==
  IF \E i \in 1..26 : UpperCase[i] = c
  THEN LowerCase[CHOOSE i \in 1..26 : UpperCase[i] = c]
  ELSE c

\* String.prototype.toLowerCase
ToLowerCase(s) == [i \in 1..Len(s) |-> ToLowerChar(s[i])]

\* the characters of s that /[^a-z0-9]/g leaves
RECURSIVE StripNonAlnum(_)
StripNonAlnum(s) ==
  IF s = <<>> THEN <<>>
  ELSE (IF IsLower(Head(s)) \/ IsDigit(Head(s)) THEN <<Head(s)>> ELSE <<>>)
         \o StripNonAlnum(Tail(s))

\* name.toLowerCase().replace(/[^a-z0-9]/g, '')
Normalize(name) == StripNonAlnum(ToLowerCase(name))

\* String.prototype.includes
Includes(s, part) ==
  \E i \in 0..(Len(s) - Len(part)) : SubSeq(s, i + 1, i + Len(part)) = part

\* the elements of list whose test passed, in order
RECURSIVE KeepPassing(_, _)
KeepPassing(list, passes) ==
  IF list = <<>> THEN <<>>
  ELSE (IF Head(passes) THEN <<Head(list)>> ELSE <<>>)
         \o KeepPassing(Tail(list), Tail(passes))

\* [a, b].filter(Boolean) on strings: the non-empty ones
Truthy(list) == KeepPassing(list, [i \in 1..Len(list) |-> list[i] # Undefined])

\* What a lookup resolved: the tier that matched, the guide key it took, the
\* playlist name that matched in the name tier, and the programs it shows.
Resolved(tier, id, name, programs) ==
  [tier |-> tier, id |-> id, name |-> name, programs |-> programs]

NoMatch == Resolved("none", Undefined, Undefined, <<>>)

\* progs && progs.length > 0 for progs = programs.get(key)
HasPrograms(programs, key) == MapHas(programs, key) /\ MapGet(programs, key) # <<>>

\* the tests of the name tier at the lookup sites
NameMatchUnguarded(norm, epgNorm) ==
  epgNorm = norm \/ Includes(epgNorm, norm) \/ Includes(norm, epgNorm)

NameMatchGrid(norm, epgNorm) ==
  epgNorm = norm \/ (Len(norm) > 3 /\ (Includes(epgNorm, norm) \/ Includes(norm, epgNorm)))

\* The name tier of EPGOverlay and ChannelList: for each name to try, in
\* order, the guide's channels in order; the first channel that matches the
\* name and has programs.
NameTier(names, guide) ==
  LET nch == Len(guide.channels)
      nameOf(k) == names[((k - 1) \div nch) + 1]
      chanOf(k) == guide.channels[((k - 1) % nch) + 1]
      hit == FindIndex([k \in 1..(Len(names) * nch) |->
                          /\ Normalize(nameOf(k)) # <<>>
                          /\ NameMatchUnguarded(Normalize(nameOf(k)),
                                                Normalize(chanOf(k)[2].name))
                          /\ HasPrograms(guide.programs, chanOf(k)[1])])
  IN  IF nch = 0 \/ hit = 0 THEN NoMatch
      ELSE Resolved("name", chanOf(hit)[1], nameOf(hit),
                    MapGet(guide.programs, chanOf(hit)[1]))

\* The case-insensitive tier of the display lookups: the first key of the
\* programs map equal to wanted once lowered, with programs.
CaseTier(wanted, guide) ==
  LET programs == guide.programs
      hit == FindIndex([i \in 1..Len(programs) |->
                          ToLowerCase(programs[i][1]) = wanted /\ programs[i][2] # <<>>])
  IN  IF hit = 0 THEN NoMatch
      ELSE Resolved("case", programs[hit][1], Undefined, programs[hit][2])

ExactTier(tvgId, guide) ==
  IF tvgId # Undefined /\ HasPrograms(guide.programs, tvgId)
  THEN Resolved("exact", tvgId, Undefined, MapGet(guide.programs, tvgId))
  ELSE NoMatch

\* part_001 922-962: the match memo of EPGOverlay
EPGOverlay(ch, guide) ==
  IF ExactTier(ch.tvgId, guide) # NoMatch THEN ExactTier(ch.tvgId, guide)
  ELSE IF ch.tvgId # Undefined /\ CaseTier(ToLowerCase(ch.tvgId), guide) # NoMatch
       THEN CaseTier(ToLowerCase(ch.tvgId), guide)
       ELSE NameTier(Truthy(<<ch.name, ch.tvgName>>), guide)

\* part_003 67-93
findEpgProgram(ch, guide) ==
  IF ExactTier(ch.tvgId, guide) # NoMatch THEN ExactTier(ch.tvgId, guide)
  ELSE IF ch.tvgId # Undefined /\ CaseTier(ToLowerCase(ch.tvgId), guide) # NoMatch
       THEN CaseTier(ToLowerCase(ch.tvgId), guide)
       ELSE NameTier(Truthy(<<ch.name, ch.tvgName>>), guide)

\* part_001 698-707: the memo of ChannelBanner; it has no name tier
ChannelBanner(ch, guide) ==
  IF ch.tvgId = Undefined THEN NoMatch
  ELSE IF ExactTier(ch.tvgId, guide) # NoMatch THEN ExactTier(ch.tvgId, guide)
       ELSE CaseTier(ToLowerCase(ch.tvgId), guide)

\* part_001 757-768: for tvgId and then its lowered form, the list at that
\* key, then the first key that is equal to it once the key is lowered
RECURSIVE FindProgramIds(_, _)
FindProgramIds(ids, guide) ==
  IF ids = <<>> THEN NoMatch
  ELSE IF ExactTier(Head(ids), guide) # NoMatch THEN ExactTier(Head(ids), guide)
  ELSE IF CaseTier(Head(ids), guide) # NoMatch THEN CaseTier(Head(ids), guide)
  ELSE FindProgramIds(Tail(ids), guide)

findProgram(ch, guide) ==
  LET r == FindProgramIds(Truthy(<<ch.tvgId, ToLowerCase(ch.tvgId)>>), guide)
  IN  IF r.tier = "exact" /\ r.id # ch.tvgId
      THEN Resolved("case", r.id, r.name, r.programs)
      ELSE r

\* EPGGrid 56-87: the keys to try are tvgId, the other keys equal to it
\* ignoring case, and the ids of the channels matching by name; the first
\* of them with programs is taken
findPrograms(ch, guide) ==
  LET programs == guide.programs
      channels == guide.channels
      caseKeys == IF ch.tvgId = Undefined THEN <<>>
                  ELSE KeepPassing([i \in 1..Len(programs) |-> programs[i][1]],
                         [i \in 1..Len(programs) |->
                            /\ ToLowerCase(programs[i][1]) = ToLowerCase(ch.tvgId)
                            /\ programs[i][1] # ch.tvgId])
      nameKeys == KeepPassing([i \in 1..Len(channels) |-> channels[i][1]],
                    [i \in 1..Len(channels) |->
                       NameMatchGrid(Normalize(ch.name), Normalize(channels[i][2].name))])
      tryKeys == <<ch.tvgId>> \o caseKeys \o nameKeys
      hit == FindIndex([k \in 1..Len(tryKeys) |->
                          tryKeys[k] # Undefined /\ HasPrograms(programs, tryKeys[k])])
  IN  IF hit = 0 THEN NoMatch
      ELSE Resolved(IF hit = 1 THEN "exact"
                    ELSE IF hit <= 1 + Len(caseKeys) THEN "case" ELSE "name",
                    tryKeys[hit],
                    IF hit > 1 + Len(caseKeys) THEN ch.name ELSE Undefined,
                    MapGet(programs, tryKeys[hit]))

\* App.tsx 869-882: the guide channel enrichChannelLogos takes the icon of
enrichChannelLogos(ch, guide) ==
  LET channels == guide.channels
      lower == ToLowerCase(ch.tvgId)
      caseHit == FindIndex([i \in 1..Len(channels) |-> ToLowerCase(channels[i][1]) = lower])
      nameHit == FindIndex([i \in 1..Len(channels) |->
                              Normalize(channels[i][2].name) = Normalize(ch.name)])
      shown(id) == IF MapHas(guide.programs, id) THEN MapGet(guide.programs, id) ELSE <<>>
  IN  IF ch.tvgId # Undefined /\ MapHas(channels, ch.tvgId)
      THEN Resolved("exact", ch.tvgId, Undefined, shown(ch.tvgId))
      ELSE IF ch.tvgId # Undefined /\ caseHit # 0
      THEN Resolved("case", channels[caseHit][1], Undefined, shown(channels[caseHit][1]))
      ELSE IF nameHit # 0
      THEN Resolved("name", channels[nameHit][1], ch.name, shown(channels[nameHit][1]))
      ELSE NoMatch

\* ------------------------------------------ channels and guides to match
IdUpper == <<"B", "B", "C", "1", ".", "u", "k">>

IdLower == <<"b", "b", "c", "1", ".", "u", "k">>

IdEspn == <<"e", "s", "p", "n", "-", "u", "s">>

NameBbcOneHd == <<"B", "B", "C", " ", "O", "n", "e", " ", "H", "D">>

NameBbcOne == <<"B", "B", "C", " ", "O", "n", "e">>

NameEspn == <<"E", "S", "P", "N">>

NameEspnUs == <<"E", "S", "P", "N", " ", "(", "U", "S", ")">>

NameTvOne == <<"T", "V", " ", "O", "n", "e">>

NameTv == <<"T", "V">>

NamePlus == <<"+">>

\* a playlist channel without a logo (m3uParser's Channel)
PlaylistChannels ==
  [name : {NameBbcOneHd, NameEspn, NameTvOne},
   tvgId : {Undefined, IdUpper, IdLower, IdEspn},
   tvgName : {Undefined, NameTv}]

\* the channel elements of a guide: id, display name, and whether any
\* programme names the channel
Declarations ==
  [id : {IdUpper, IdLower, IdEspn},
   name : {NameBbcOne, NameEspnUs, NameTv, NamePlus},
   aired : BOOLEAN]

DeclarationLists ==
  {l \in UNION {[1..n -> Declarations] : n \in 0..MaxGuideChannels} :
     \A i, j \in 1..Len(l) : i # j => l[i].id # l[j].id}

\* the guide parseXMLTV builds from such a document
GuideOf(decls) ==
  [channels |-> [i \in 1..Len(decls) |->
                   <<decls[i].id, [id |-> decls[i].id, name |-> decls[i].name]>>],
   programs |-> [i \in 1..Len(decls) |->
                   <<decls[i].id,
                     IF decls[i].aired
                     THEN <<[channelId |-> decls[i].id, title |-> Untitled,
                             start |-> 0, stop |-> 1]>>
                     ELSE <<>>>>]]

Guides == {GuideOf(l) : l \in DeclarationLists}

NoChannel == [name |-> Undefined, tvgId |-> Undefined, tvgName |-> Undefined]

NoGuide == [channels |-> <<>>, programs |-> <<>>]

\* ---------------------------------------------------- playlists as loaded
\* currentChannel === null, parentalPin === null, activePlaylistId === null
NullChannel == [id |-> "null"]

NullPin == ""

NullId == 0

\* mediaRecorder === null, currentRecording === null
NullRecorder == 0

NullRecording == ""

\* a channel without group-title: !ch.group
NoGroup == ""

\* the channels of two playlists (m3uParser 65-80: group is the group-title,
\* if the entry has one)
ChannelsOne ==
  <<[id |-> "one-1", group |-> "News"], [id |-> "one-2", group |-> "Adult"],
    [id |-> "one-3", group |-> NoGroup]>>

ChannelsTwo == <<[id |-> "two-1", group |-> "Adult"], [id |-> "two-2", group |-> "News"]>>

\* the urls playlists are loaded from and what loadM3UFromURL returns for
\* them: the channels and the url-tvg hint of the header, if it has one
PlaylistUrls == {"http://one", "http://two"}

RemoteChannels(url) == IF url = "http://one" THEN ChannelsOne ELSE ChannelsTwo

Playlist(list, hint) == [channels |-> list, epgUrl |-> hint]

VARIABLES doc, parsed, qPrograms, qTime, qWindow, qCall, rChannel, rGuide, rCall, fRequest, fCall,
          epgData, epgUrl, epgLoading, epgError, epgLastRefresh, epgDetectedUrl,
          epgAutoRefresh, epgRefreshInterval, mounted, refreshTimerRef, timers,
          loads, clock, lastStep, cleared, caller, epgSources, dataUrl,
          channels, currentChannel, parentalPin, parentalUnlocked, lockedGroups,
          savedPlaylists, activePlaylistId, playlistStore, playlistAutoUpdate, updates,
          mediaRecorder, recordedChunks, currentRecording, recorders, recordings

vars == <<doc, parsed, qPrograms, qTime, qWindow, qCall, rChannel, rGuide, rCall, fRequest, fCall,
          epgData, epgUrl, epgLoading, epgError, epgLastRefresh, epgDetectedUrl,
          epgAutoRefresh, epgRefreshInterval, mounted, refreshTimerRef, timers,
          loads, clock, lastStep, cleared, caller, epgSources, dataUrl,
          channels, currentChannel, parentalPin, parentalUnlocked, lockedGroups,
          savedPlaylists, activePlaylistId, playlistStore, playlistAutoUpdate, updates,
          mediaRecorder, recordedChunks, currentRecording, recorders, recordings>>

parseVars == <<doc, parsed>>

queryVars == <<qPrograms, qTime, qWindow, qCall>>

resolveVars == <<rChannel, rGuide, rCall>>

fetchVars == <<fRequest, fCall>>

storeVars == <<epgData, epgUrl, epgLoading, epgError, epgLastRefresh, epgDetectedUrl,
               epgAutoRefresh, epgRefreshInterval, mounted, refreshTimerRef, timers,
               loads, clock, lastStep, cleared, caller, epgSources, dataUrl>>

\* the playlist side of the store: the channels shown, the one playing, the
\* parental lock, the saved playlists with their data in localStorage, and
\* the fetches of the playlist auto-update that are in flight
channelVars == <<channels, currentChannel, parentalPin, parentalUnlocked, lockedGroups,
                 savedPlaylists, activePlaylistId, playlistStore, playlistAutoUpdate, updates>>

\* recorder.ts 11-14: the module's variables; recorders are the MediaRecorder
\* objects made so far and recordings the Recording objects resolved
recVars == <<mediaRecorder, recordedChunks, currentRecording, recorders, recordings>>

\* recorder.ts 11-14: the module as loaded
RecorderIdle ==
  /\ mediaRecorder = NullRecorder
  /\ recordedChunks = <<>>
  /\ currentRecording = NullRecording
  /\ recorders = <<>>
  /\ recordings = <<>>

\* the EPG fields of the store and the calls of loadEPG
epgVars == <<epgData, epgUrl, epgLoading, epgError, epgLastRefresh, epgDetectedUrl,
             loads, cleared, caller, epgSources, dataUrl>>

\* the settings of the auto-refresh and the EPGGrabber component: whether it
\* is mounted, its refreshTimerRef, and the interval timers that are pending
refreshVars == <<epgAutoRefresh, epgRefreshInterval, mounted, refreshTimerRef, timers>>

ParseIdle == doc = Malformed /\ parsed = Null

\* no grid is shown
NoWindow == [start |-> 0, end |-> 0]

QueryIdle == qPrograms = <<>> /\ qTime = 0 /\ qWindow = NoWindow /\ qCall = NoCall

ResolveIdle == rChannel = NoChannel /\ rGuide = NoGuide /\ rCall = NoCall

NoRequest == [url |-> NullUrl]

FetchIdle == fRequest = NoRequest /\ fCall = NoCall

\* loads[i] is the i-th call of loadEPG: not made yet, awaiting
\* loadEPGFromURL, or returned.  clock is Date.now().  lastStep names the
\* step just taken and cleared tells that clearEPG ran and loadEPG has not
\* been called since; caller names who called loadEPG in the step just taken
\* ("none" when the step called none); dataUrl is the url whose load
\* produced the guide in epgData (NullUrl while there is none); none of them
\* is read by any action.
NotCalled == [state |-> "not called"]

\* refreshTimerRef.current === null
NoTimer == 0

\* the options of the interval select, in minutes (Sidebar 783-788)
RefreshIntervals == {30, 120}

\* lines 525-533: the store as created
StoreInit ==
  /\ epgData = NullData
  /\ epgUrl = NullUrl
  /\ epgLoading = FALSE
  /\ epgError = NullError
  /\ epgLastRefresh = NullTime
  /\ epgDetectedUrl = NullUrl
  /\ epgAutoRefresh = FALSE
  /\ epgRefreshInterval = 120
  /\ mounted = FALSE
  /\ refreshTimerRef = NoTimer
  /\ timers = {}
  /\ loads = [i \in 1..MaxLoads |-> NotCalled]
  /\ clock = 1
  /\ lastStep = [op |-> "create"]
  /\ cleared = FALSE
  /\ caller = "none"
  /\ epgSources = <<>>
  /\ dataUrl = NullUrl
  /\ channels = <<>>
  /\ currentChannel = NullChannel
  /\ parentalPin = NullPin
  /\ parentalUnlocked = FALSE
  /\ lockedGroups = <<>>
  /\ savedPlaylists = <<>>
  /\ activePlaylistId = NullId
  /\ playlistStore = <<>>
  /\ playlistAutoUpdate = FALSE
  /\ updates = <<>>
  /\ RecorderIdle


\* ------------------------------------------------------ parser, as called
InitParse == doc \in Docs /\ parsed = Null /\ QueryIdle /\ ResolveIdle /\ FetchIdle /\ StoreInit

\* one call parseXMLTV(doc)
Parse ==
  /\ parsed = Null
  /\ parsed' \in parseXMLTV(doc)
  /\ UNCHANGED <<doc, queryVars, storeVars, resolveVars, fetchVars, channelVars, recVars>>

NextParse == Parse

SpecParse == InitParse /\ [][NextParse]_vars

\* ---------------------------------------- current and next program lookups
InitQuery ==
  /\ qPrograms \in ProgramLists
  /\ qTime \in Instants
  /\ qWindow = NoWindow
  /\ qCall = NoCall
  /\ ParseIdle
  /\ ResolveIdle
  /\ FetchIdle
  /\ StoreInit

CallCurrent ==
  /\ qCall' = [op |-> "getCurrentProgram", result |-> getCurrentProgram(qPrograms, qTime)]
  /\ UNCHANGED <<qPrograms, qTime, qWindow, parseVars, storeVars, resolveVars, fetchVars, channelVars, recVars>>

CallNext ==
  /\ qCall' = [op |-> "getNextProgram", result |-> getNextProgram(qPrograms, qTime)]
  /\ UNCHANGED <<qPrograms, qTime, qWindow, parseVars, storeVars, resolveVars, fetchVars, channelVars, recVars>>

NextQuery == CallCurrent \/ CallNext

SpecQuery == InitQuery /\ [][NextQuery]_vars

\* ------------------------------------------------ progress of one program
\* the program and the instant are valid dates: every caller passes a
\* program that getCurrentProgram returned
InitProgress ==
  /\ qPrograms \in {<<p>> : p \in [start : Instants, stop : Instants]}
  /\ qTime \in Instants
  /\ qWindow = NoWindow
  /\ qCall = NoCall
  /\ ParseIdle
  /\ ResolveIdle
  /\ FetchIdle
  /\ StoreInit

CallProgress ==
  /\ qCall' = [op |-> "getProgramProgress",
               result |-> getProgramProgress(qPrograms[1], qTime)]
  /\ UNCHANGED <<qPrograms, qTime, qWindow, parseVars, storeVars, resolveVars, fetchVars, channelVars, recVars>>

NextProgress == CallProgress

SpecProgress == InitProgress /\ [][NextProgress]_vars

\* ------------------------------------------- the programs of a grid row
JsLt(a, b) == a # NaN /\ b # NaN /\ a < b

\* Math.max, Math.min
MathMax(a, b) == IF a = NaN \/ b = NaN THEN NaN ELSE IF a >= b THEN a ELSE b

MathMin(a, b) == IF a = NaN \/ b = NaN THEN NaN ELSE IF a <= b THEN a ELSE b

\* EPGGrid 79-83: the filter of findPrograms on the list of the key found
windowOverlap(programs, windowStart, windowEnd) ==
  SelectSeq(programs, LAMBDA p : JsGt(p.stop, windowStart) /\ JsLt(p.start, windowEnd))

\* EPGGrid 225-226: pStart and pEnd of one program of the row
Clipped(prog, gridStart, gridEnd) ==
  [program |-> prog,
   pStart |-> MathMax(prog.start, gridStart),
   pEnd |-> MathMin(prog.stop, gridEnd)]

\* EPGGrid 216-226: the row as laid out
GridRow(programs, gridStart, gridEnd) ==
  LET progs == windowOverlap(programs, gridStart, gridEnd)
  IN  [i \in 1..Len(progs) |-> Clipped(progs[i], gridStart, gridEnd)]

\* EPGGrid 47-49: gridEnd is HOURS_VISIBLE hours after gridStart
Windows == {w \in [start : Instants, end : Instants] : w.start < w.end}

InitWindow ==
  /\ qPrograms \in ProgramLists
  /\ qWindow \in Windows
  /\ qTime = 0
  /\ qCall = NoCall
  /\ ParseIdle
  /\ ResolveIdle
  /\ FetchIdle
  /\ StoreInit

CallWindowOverlap ==
  /\ qCall = NoCall
  /\ qCall' = [op |-> "windowOverlap",
               result |-> GridRow(qPrograms, qWindow.start, qWindow.end)]
  /\ UNCHANGED <<qPrograms, qTime, qWindow, parseVars, storeVars, resolveVars, fetchVars, channelVars, recVars>>

NextWindow == CallWindowOverlap

SpecWindow == InitWindow /\ [][NextWindow]_vars

\* ------------------------------------- the lookups of a channel's programs
InitResolve ==
  /\ rChannel \in PlaylistChannels
  /\ rGuide \in Guides
  /\ rCall = NoCall
  /\ ParseIdle
  /\ QueryIdle
  /\ FetchIdle
  /\ StoreInit

CallEPGOverlay ==
  /\ rCall = NoCall
  /\ rCall' = [op |-> "EPGOverlay", result |-> EPGOverlay(rChannel, rGuide)]
  /\ UNCHANGED <<rChannel, rGuide, parseVars, queryVars, storeVars, fetchVars, channelVars, recVars>>

CallChannelBanner ==
  /\ rCall = NoCall
  /\ rCall' = [op |-> "ChannelBanner", result |-> ChannelBanner(rChannel, rGuide)]
  /\ UNCHANGED <<rChannel, rGuide, parseVars, queryVars, storeVars, fetchVars, channelVars, recVars>>

CallFindProgram ==
  /\ rCall = NoCall
  /\ rCall' = [op |-> "findProgram", result |-> findProgram(rChannel, rGuide)]
  /\ UNCHANGED <<rChannel, rGuide, parseVars, queryVars, storeVars, fetchVars, channelVars, recVars>>

CallFindEpgProgram ==
  /\ rCall = NoCall
  /\ rCall' = [op |-> "findEpgProgram", result |-> findEpgProgram(rChannel, rGuide)]
  /\ UNCHANGED <<rChannel, rGuide, parseVars, queryVars, storeVars, fetchVars, channelVars, recVars>>

CallFindPrograms ==
  /\ rCall = NoCall
  /\ rCall' = [op |-> "findPrograms", result |-> findPrograms(rChannel, rGuide)]
  /\ UNCHANGED <<rChannel, rGuide, parseVars, queryVars, storeVars, fetchVars, channelVars, recVars>>

CallEnrichChannelLogos ==
  /\ rCall = NoCall
  /\ rCall' = [op |-> "enrichChannelLogos", result |-> enrichChannelLogos(rChannel, rGuide)]
  /\ UNCHANGED <<rChannel, rGuide, parseVars, queryVars, storeVars, fetchVars, channelVars, recVars>>

NextResolve ==
  \/ CallEPGOverlay
  \/ CallChannelBanner
  \/ CallFindProgram
  \/ CallFindEpgProgram
  \/ CallFindPrograms
  \/ CallEnrichChannelLogos

SpecResolve == InitResolve /\ [][NextResolve]_vars

\* ------------------------------------------------- one fetch, one load
InitFetch ==
  /\ fRequest \in [url : Urls, net : Nets, hasDecompressionStream : BOOLEAN]
  /\ fCall = NoCall
  /\ ParseIdle
  /\ QueryIdle
  /\ ResolveIdle
  /\ StoreInit

CallFetchWithCorsProxy ==
  /\ fCall = NoCall
  /\ fCall' = [op |-> "fetchWithCorsProxy",
               result |-> fetchWithCorsProxy(fRequest.url, fRequest.net)]
  /\ UNCHANGED <<fRequest, parseVars, queryVars, resolveVars, storeVars, channelVars, recVars>>

CallLoadEPGFromURL ==
  /\ fCall = NoCall
  /\ \E r \in loadEPGFromURL(fRequest.url, fRequest.net, fRequest.hasDecompressionStream) :
       fCall' = [op |-> "loadEPGFromURL", result |-> r]
  /\ UNCHANGED <<fRequest, parseVars, queryVars, resolveVars, storeVars, channelVars, recVars>>

NextFetch == CallFetchWithCorsProxy \/ CallLoadEPGFromURL

SpecFetch == InitFetch /\ [][NextFetch]_vars

\* ------------------------------------------------------------ the EPG store
Pending(i) == loads[i].state = "pending"

\* setInterval's return value: an id no pending timer has and the ref does
\* not hold
NewTimer(pending) ==
  CHOOSE id \in 1..MaxTimers :
    /\ id \notin pending \cup {refreshTimerRef}
    /\ \A j \in 1..(id - 1) : j \in pending \cup {refreshTimerRef}

\* Sidebar 484: the condition under which the effect arranges a timer
Arranged == epgAutoRefresh' /\ epgUrl' # NullUrl /\ epgRefreshInterval' > 0

\* the dependencies of the effect; doRefresh is a new function whenever
\* epgUrl or epgLoading has changed (Sidebar 477, 490)
EffectDeps == <<epgAutoRefresh, epgUrl, epgRefreshInterval, epgLoading>>

\* the effect with one slip: the pending timer is not cancelled
AutoRefreshEffectWithoutCancel ==
  IF mounted /\ EffectDeps' # EffectDeps
  THEN IF Arranged
       THEN /\ \E id \in 1..MaxTimers : id \notin timers \cup {refreshTimerRef}
            /\ timers' = timers \cup {NewTimer(timers)}
            /\ refreshTimerRef' = NewTimer(timers)
       ELSE timers' = timers /\ refreshTimerRef' = NoTimer
  ELSE UNCHANGED <<timers, refreshTimerRef>>

\* Sidebar 479-490: the render that follows a change of the store, and the
\* effect when one of its dependencies changed: the cleanup of its last run
\* (487-489), then its body.  The render and the effect run before any
\* timer or click is handled.
AutoRefreshEffect ==
  IF mounted /\ EffectDeps' # EffectDeps
  THEN LET afterCleanup == timers \ {refreshTimerRef}
           afterClear == afterCleanup \ {refreshTimerRef}
       IN  IF Arranged
           THEN /\ \E id \in 1..MaxTimers : id \notin afterClear \cup {refreshTimerRef}
                /\ timers' = afterClear \cup {NewTimer(afterClear)}
                /\ refreshTimerRef' = NewTimer(afterClear)
           ELSE timers' = afterClear /\ refreshTimerRef' = NoTimer
  ELSE UNCHANGED <<timers, refreshTimerRef>>

\* lines 680-683: loadEPG(url) up to its await
loadEPG(url) ==
  /\ \E i \in 1..MaxLoads :
       /\ loads[i] = NotCalled
       /\ \A j \in 1..(i - 1) : loads[j] # NotCalled
       /\ loads' = [loads EXCEPT ![i] = [state |-> "pending", url |-> url]]
  /\ epgLoading' = TRUE
  /\ epgError' = NullError
  /\ epgUrl' = url
  /\ lastStep' = [op |-> "loadEPG", url |-> url]
  /\ cleared' = FALSE
  /\ UNCHANGED <<epgSources, epgData, dataUrl, epgLastRefresh, epgDetectedUrl, clock,
               epgAutoRefresh, epgRefreshInterval, mounted,
               parseVars, queryVars, resolveVars, fetchVars, channelVars, recVars>>
  /\ AutoRefreshEffect

\* the success branch with one slip: the refresh is not timestamped
LoadSucceedWithoutTimestamp(i) ==
  /\ Pending(i)
  /\ \E r \in LoadResults[loads[i].url], now \in clock..MaxClock :
         /\ r.ok
         /\ epgData' = r.data
         /\ epgLastRefresh' = epgLastRefresh
         /\ clock' = now
  /\ epgLoading' = FALSE
  /\ loads' = [loads EXCEPT ![i] = [state |-> "returned", url |-> loads[i].url]]
  /\ lastStep' = [op |-> "succeed", url |-> loads[i].url]
  /\ dataUrl' = loads[i].url
  /\ caller' = "none"
  /\ UNCHANGED <<epgSources, epgUrl, epgError, epgDetectedUrl, cleared,
               epgAutoRefresh, epgRefreshInterval, mounted,
               parseVars, queryVars, resolveVars, fetchVars, channelVars, recVars>>
  /\ AutoRefreshEffect

\* lines 684-686: loadEPGFromURL returned data to the i-th call.  The
\* enrichChannelLogos() that follows writes the playlist's channels only.
LoadSucceed(i) ==
  /\ Pending(i)
  /\ \E r \in LoadResults[loads[i].url], now \in clock..MaxClock :
         /\ r.ok
         /\ epgData' = r.data
         /\ epgLastRefresh' = now
         /\ clock' = now
  /\ epgLoading' = FALSE
  /\ loads' = [loads EXCEPT ![i] = [state |-> "returned", url |-> loads[i].url]]
  /\ lastStep' = [op |-> "succeed", url |-> loads[i].url]
  /\ dataUrl' = loads[i].url
  /\ caller' = "none"
  /\ UNCHANGED <<epgSources, epgUrl, epgError, epgDetectedUrl, cleared,
               epgAutoRefresh, epgRefreshInterval, mounted,
               parseVars, queryVars, resolveVars, fetchVars, channelVars, recVars>>
  /\ AutoRefreshEffect

\* the catch branch with one slip: it also drops the guide
LoadFailDroppingGuide(i) ==
  /\ Pending(i)
  /\ \E r \in LoadResults[loads[i].url] :
         /\ ~r.ok
         /\ epgError' = r.error
  /\ epgData' = NullData
  /\ dataUrl' = NullUrl
  /\ epgLoading' = FALSE
  /\ loads' = [loads EXCEPT ![i] = [state |-> "returned", url |-> loads[i].url]]
  /\ lastStep' = [op |-> "fail", url |-> loads[i].url]
  /\ caller' = "none"
  /\ UNCHANGED <<epgSources, epgUrl, epgLastRefresh, epgDetectedUrl, clock, cleared,
               epgAutoRefresh, epgRefreshInterval, mounted,
               parseVars, queryVars, resolveVars, fetchVars, channelVars, recVars>>
  /\ AutoRefreshEffect

\* lines 687-692: loadEPGFromURL threw in the i-th call
LoadFail(i) ==
  /\ Pending(i)
  /\ \E r \in LoadResults[loads[i].url] :
         /\ ~r.ok
         /\ epgError' = r.error
  /\ epgLoading' = FALSE
  /\ loads' = [loads EXCEPT ![i] = [state |-> "returned", url |-> loads[i].url]]
  /\ lastStep' = [op |-> "fail", url |-> loads[i].url]
  /\ caller' = "none"
  /\ UNCHANGED <<epgSources, epgData, dataUrl, epgUrl, epgLastRefresh, epgDetectedUrl, clock, cleared,
               epgAutoRefresh, epgRefreshInterval, mounted,
               parseVars, queryVars, resolveVars, fetchVars, channelVars, recVars>>
  /\ AutoRefreshEffect

\* lines 695-697; its one caller is the button shown while a guide and a url
\* are set (Sidebar 623-633)
clearEPG ==
  /\ mounted
  /\ epgData # NullData /\ epgUrl # NullUrl
  /\ epgData' = NullData
  /\ epgUrl' = NullUrl
  /\ epgError' = NullError
  /\ epgLastRefresh' = NullTime
  /\ epgDetectedUrl' = NullUrl
  /\ lastStep' = [op |-> "clearEPG"]
  /\ cleared' = TRUE
  /\ dataUrl' = NullUrl
  /\ caller' = "none"
  /\ UNCHANGED <<epgSources, epgLoading, loads, clock,
               epgAutoRefresh, epgRefreshInterval, mounted,
               parseVars, queryVars, resolveVars, fetchVars, channelVars, recVars>>
  /\ AutoRefreshEffect

\* lines 536-548.  The fetchChannelLogos() that follows adds logos to the
\* channels it finds in the store when its fetch returns and changes no id
\* or group.
setPlaylist(playlist) ==
  /\ channels' = playlist.channels
  /\ currentChannel' = NullChannel
  /\ epgDetectedUrl' = playlist.epgUrl
  /\ lastStep' = [op |-> "setPlaylist"]
  /\ caller' = "none"
  /\ UNCHANGED <<epgSources, epgData, dataUrl, epgUrl, epgLoading, epgError, epgLastRefresh,
               loads, clock, cleared, parentalPin, parentalUnlocked, lockedGroups,
               savedPlaylists, activePlaylistId, playlistStore, playlistAutoUpdate, updates,
               refreshVars, parseVars, queryVars, resolveVars, fetchVars, recVars>>

\* App.tsx 699-701, from the toggle of EPGGrabber (Sidebar 769)
setEpgAutoRefresh(enabled) ==
  /\ mounted
  /\ epgAutoRefresh' = enabled
  /\ lastStep' = [op |-> "setEpgAutoRefresh"]
  /\ caller' = "none"
  /\ UNCHANGED <<epgSources, epgData, dataUrl, epgUrl, epgLoading, epgError, epgLastRefresh, epgDetectedUrl,
               epgRefreshInterval, mounted, loads, clock, cleared,
               parseVars, queryVars, resolveVars, fetchVars, channelVars, recVars>>
  /\ AutoRefreshEffect

\* App.tsx 703-705, from the select shown while auto-refresh is enabled
\* (Sidebar 776-790)
setEpgRefreshInterval(minutes) ==
  /\ mounted /\ epgAutoRefresh
  /\ epgRefreshInterval' = minutes
  /\ lastStep' = [op |-> "setEpgRefreshInterval"]
  /\ caller' = "none"
  /\ UNCHANGED <<epgSources, epgData, dataUrl, epgUrl, epgLoading, epgError, epgLastRefresh, epgDetectedUrl,
               epgAutoRefresh, mounted, loads, clock, cleared,
               parseVars, queryVars, resolveVars, fetchVars, channelVars, recVars>>
  /\ AutoRefreshEffect

\* Sidebar 129: the EPG tab is opened; EPGGrabber renders with a new ref and
\* the body of the effect runs (480-486)
Mount ==
  /\ ~mounted
  /\ mounted' = TRUE
  /\ IF epgAutoRefresh /\ epgUrl # NullUrl /\ epgRefreshInterval > 0
     THEN /\ \E id \in 1..MaxTimers : id \notin timers \cup {refreshTimerRef}
          /\ timers' = timers \cup {NewTimer(timers)}
          /\ refreshTimerRef' = NewTimer(timers)
     ELSE timers' = timers /\ refreshTimerRef' = NoTimer
  /\ lastStep' = [op |-> "mount"]
  /\ caller' = "none"
  /\ UNCHANGED <<epgSources, epgData, dataUrl, epgUrl, epgLoading, epgError, epgLastRefresh, epgDetectedUrl,
               epgAutoRefresh, epgRefreshInterval, loads, clock, cleared,
               parseVars, queryVars, resolveVars, fetchVars, channelVars, recVars>>

\* another tab is opened: the cleanup of the effect (487-489), and the ref
\* goes with the component
Unmount ==
  /\ mounted
  /\ mounted' = FALSE
  /\ timers' = timers \ {refreshTimerRef}
  /\ refreshTimerRef' = NoTimer
  /\ lastStep' = [op |-> "unmount"]
  /\ caller' = "none"
  /\ UNCHANGED <<epgSources, epgData, dataUrl, epgUrl, epgLoading, epgError, epgLastRefresh, epgDetectedUrl,
               epgAutoRefresh, epgRefreshInterval, loads, clock, cleared,
               parseVars, queryVars, resolveVars, fetchVars, channelVars, recVars>>

\* Sidebar 499-502: a click on a source of the list
handleSelectSource(url) ==
  /\ mounted
  /\ loadEPG(url)
  /\ caller' = "handleSelectSource"

\* Sidebar 473-477
doRefresh ==
  /\ epgUrl # NullUrl /\ ~epgLoading
  /\ loadEPG(epgUrl)

\* Sidebar 562, 802: the refresh buttons
RefreshButton ==
  /\ mounted
  /\ doRefresh
  /\ caller' = "refresh button"

\* Sidebar 485: the pending interval timer calls doRefresh
RefreshTimer ==
  /\ refreshTimerRef \in timers
  /\ doRefresh
  /\ caller' = "refresh timer"

\* Sidebar 747-753: the Load Direct button, disabled while loading
LoadDirect(url) ==
  /\ mounted
  /\ ~epgLoading
  /\ loadEPG(url)
  /\ caller' = "load direct"

\* Sidebar 605-619: the button of the detected-url card
GrabDetected ==
  /\ mounted
  /\ epgDetectedUrl # NullUrl /\ epgData = NullData
  /\ ~epgLoading
  /\ loadEPG(epgDetectedUrl)
  /\ caller' = "grab button"

\* Sidebar 493-497: the effect run after a render of EPGGrabber
AutoLoadDetected ==
  /\ mounted
  /\ epgDetectedUrl # NullUrl /\ epgData = NullData /\ ~epgLoading /\ epgUrl = NullUrl
  /\ loadEPG(epgDetectedUrl)
  /\ caller' = "auto-load effect"

Next ==
  \/ \E url \in Urls : handleSelectSource(url)
  \/ RefreshButton
  \/ RefreshTimer
  \/ \E url \in Urls : LoadDirect(url)
  \/ GrabDetected
  \/ AutoLoadDetected
  \/ \E i \in 1..MaxLoads : LoadSucceed(i)
  \/ \E i \in 1..MaxLoads : LoadFail(i)
  \/ clearEPG
  \/ \E hint \in Urls \cup {NullUrl} : setPlaylist(Playlist(ChannelsOne, hint))
  \/ \E enabled \in BOOLEAN : setEpgAutoRefresh(enabled)
  \/ \E minutes \in RefreshIntervals : setEpgRefreshInterval(minutes)
  \/ Mount
  \/ Unmount

Init == StoreInit /\ ParseIdle /\ QueryIdle /\ ResolveIdle /\ FetchIdle

Spec == Init /\ [][Next]_vars

\* ------------------------------------------- the store across a restart
\* the names a custom source is given
SourceNames == {"Mine"}

\* App.tsx 707-714: the id is custom-${Date.now()}
addCustomEpgSource(name, url) ==
  /\ Len(epgSources) < MaxSources
  /\ epgSources' = Append(epgSources, [id |-> clock, name |-> name, url |-> url,
                                       region |-> "Custom", isCustom |-> TRUE])
  /\ lastStep' = [op |-> "addCustomEpgSource"]
  /\ caller' = "none"
  /\ UNCHANGED <<epgData, dataUrl, epgUrl, epgLoading, epgError, epgLastRefresh,
               epgDetectedUrl, loads, clock, cleared,
               refreshVars, parseVars, queryVars, resolveVars, fetchVars, channelVars, recVars>>

\* App.tsx 716-720
removeCustomEpgSource(id) ==
  /\ \E i \in 1..Len(epgSources) : epgSources[i].id = id
  /\ epgSources' = SelectSeq(epgSources, LAMBDA s : s.id # id)
  /\ lastStep' = [op |-> "removeCustomEpgSource"]
  /\ caller' = "none"
  /\ UNCHANGED <<epgData, dataUrl, epgUrl, epgLoading, epgError, epgLastRefresh,
               epgDetectedUrl, loads, clock, cleared,
               refreshVars, parseVars, queryVars, resolveVars, fetchVars, channelVars, recVars>>

\* the page is closed and opened again: the store is created anew (App.tsx
\* 515-533) and the fields that partialize wrote (1029-1055) are read back:
\* of the EPG fields epgUrl, epgAutoRefresh, epgRefreshInterval and
\* epgSources.  The calls in flight and the timers go with the old page.
Restart ==
  /\ epgData' = NullData
  /\ dataUrl' = NullUrl
  /\ epgLoading' = FALSE
  /\ epgError' = NullError
  /\ epgLastRefresh' = NullTime
  /\ epgDetectedUrl' = NullUrl
  /\ mounted' = FALSE
  /\ refreshTimerRef' = NoTimer
  /\ timers' = {}
  /\ loads' = [i \in 1..MaxLoads |-> NotCalled]
  /\ lastStep' = [op |-> "restart"]
  /\ cleared' = FALSE
  /\ caller' = "none"
  /\ UNCHANGED <<epgUrl, epgAutoRefresh, epgRefreshInterval, epgSources, clock,
               parseVars, queryVars, resolveVars, fetchVars, channelVars, recVars>>

NextPersist ==
  \/ \E url \in Urls : handleSelectSource(url)
  \/ \E i \in 1..MaxLoads : LoadSucceed(i)
  \/ \E i \in 1..MaxLoads : LoadFail(i)
  \/ \E enabled \in BOOLEAN : setEpgAutoRefresh(enabled)
  \/ \E minutes \in RefreshIntervals : setEpgRefreshInterval(minutes)
  \/ \E name \in SourceNames, url \in Urls : addCustomEpgSource(name, url)
  \/ \E id \in 1..MaxClock : removeCustomEpgSource(id)
  \/ Mount
  \/ Restart

SpecPersist == Init /\ [][NextPersist]_vars


\* ------------------------------------------- channels and the parental lock
\* App.tsx 1002-1007: the parental filter of getFilteredChannels (no group
\* selected, no search typed, default sort)
Includes1(list, x) == \E i \in 1..Len(list) : list[i] = x

Hidden(ch) ==
  /\ parentalPin # NullPin /\ ~parentalUnlocked /\ Len(lockedGroups) > 0
  /\ ch.group # NoGroup /\ Includes1(lockedGroups, ch.group)

getFilteredChannels == SelectSeq(channels, LAMBDA ch : ~Hidden(ch))

\* the groups of the playlist shown (m3uParser 84-97)
GroupsOf(list) == {list[i].group : i \in 1..Len(list)} \ {NoGroup}

\* Sidebar 232-245: handleUrlLoad once loadM3UFromURL has returned a playlist
\* with channels: setPlaylist(result), then savePlaylist(name, result, url)
\* (App.tsx 536-548, 613-635).  The id is pl-${Date.now()}; the clock has
\* moved on by the next call.
handleUrlLoad(url) ==
  /\ Len(savedPlaylists) < MaxPlaylists
  /\ channels' = RemoteChannels(url)
  /\ currentChannel' = NullChannel
  /\ epgDetectedUrl' = NullUrl
  /\ playlistStore' = MapSet(playlistStore, clock, Playlist(RemoteChannels(url), NullUrl))
  /\ savedPlaylists' = Append(savedPlaylists, [id |-> clock, url |-> url])
  /\ activePlaylistId' = clock
  /\ clock' = clock + 1
  /\ lastStep' = [op |-> "handleUrlLoad"]
  /\ UNCHANGED <<epgSources, epgData, dataUrl, epgUrl, epgLoading, epgError, epgLastRefresh,
               loads, cleared, caller, parentalPin, parentalUnlocked, lockedGroups,
               playlistAutoUpdate, updates,
               refreshVars, parseVars, queryVars, resolveVars, fetchVars, recVars>>

\* Sidebar 1138-1144, App.tsx 776: a PIN of four digits or more is set
handleSetPin(pin) ==
  /\ parentalPin = NullPin
  /\ parentalPin' = pin
  /\ parentalUnlocked' = FALSE
  /\ lastStep' = [op |-> "setParentalPin"]
  /\ UNCHANGED <<channels, currentChannel, lockedGroups, savedPlaylists, activePlaylistId,
               playlistStore, playlistAutoUpdate, updates, clock,
               epgVars, refreshVars, parseVars, queryVars, resolveVars, fetchVars, recVars>>

\* Sidebar 1243-1250: the PIN is removed, offered while unlocked
removePin ==
  /\ parentalPin # NullPin /\ parentalUnlocked
  /\ parentalPin' = NullPin
  /\ parentalUnlocked' = FALSE
  /\ lastStep' = [op |-> "setParentalPin"]
  /\ UNCHANGED <<channels, currentChannel, lockedGroups, savedPlaylists, activePlaylistId,
               playlistStore, playlistAutoUpdate, updates, clock,
               epgVars, refreshVars, parseVars, queryVars, resolveVars, fetchVars, recVars>>

\* App.tsx 785-791, from handleUnlock (Sidebar 1146-1153)
unlockParental(pin) ==
  /\ parentalPin # NullPin /\ ~parentalUnlocked
  /\ parentalUnlocked' = (parentalPin = pin)
  /\ lastStep' = [op |-> "unlockParental"]
  /\ UNCHANGED <<channels, currentChannel, parentalPin, lockedGroups, savedPlaylists,
               activePlaylistId, playlistStore, playlistAutoUpdate, updates, clock,
               epgVars, refreshVars, parseVars, queryVars, resolveVars, fetchVars, recVars>>

\* App.tsx 793, from the Lock Now button
lockParental ==
  /\ parentalPin # NullPin /\ parentalUnlocked
  /\ parentalUnlocked' = FALSE
  /\ lastStep' = [op |-> "lockParental"]
  /\ UNCHANGED <<channels, currentChannel, parentalPin, lockedGroups, savedPlaylists,
               activePlaylistId, playlistStore, playlistAutoUpdate, updates, clock,
               epgVars, refreshVars, parseVars, queryVars, resolveVars, fetchVars, recVars>>

\* App.tsx 778-783, from the checkboxes shown while unlocked (Sidebar 1223)
toggleLockedGroup(group) ==
  /\ parentalPin # NullPin /\ parentalUnlocked
  /\ group \in GroupsOf(channels)
  /\ lockedGroups' = IF Includes1(lockedGroups, group)
                     THEN SelectSeq(lockedGroups, LAMBDA g : g # group)
                     ELSE Append(lockedGroups, group)
  /\ lastStep' = [op |-> "toggleLockedGroup"]
  /\ UNCHANGED <<channels, currentChannel, parentalPin, parentalUnlocked, savedPlaylists,
               activePlaylistId, playlistStore, playlistAutoUpdate, updates, clock,
               epgVars, refreshVars, parseVars, queryVars, resolveVars, fetchVars, recVars>>

\* App.tsx 550-551
setCurrentChannel(ch, op) ==
  /\ currentChannel' = ch
  /\ lastStep' = [op |-> op]
  /\ UNCHANGED <<channels, parentalPin, parentalUnlocked, lockedGroups, savedPlaylists,
               activePlaylistId, playlistStore, playlistAutoUpdate, updates, clock,
               epgVars, refreshVars, parseVars, queryVars, resolveVars, fetchVars, recVars>>

\* a click on a channel of the list, which shows getFilteredChannels()
\* (part_001 739, 816)
handleChannelClick(i) ==
  /\ i \in 1..Len(getFilteredChannels)
  /\ setCurrentChannel(getFilteredChannels[i], "handleChannelClick")

\* channels.findIndex((c) => c.id === currentChannel.id), counted from 0
CurrentIndex ==
  FindIndex([i \in 1..Len(channels) |-> channels[i].id = currentChannel.id]) - 1

\* App.tsx 961-968
playNextChannel ==
  /\ currentChannel # NullChannel /\ Len(channels) > 0
  /\ setCurrentChannel(channels[((CurrentIndex + 1) % Len(channels)) + 1], "playNextChannel")

\* App.tsx 970-977
playPrevChannel ==
  /\ currentChannel # NullChannel /\ Len(channels) > 0
  /\ setCurrentChannel(channels[((CurrentIndex - 1 + Len(channels)) % Len(channels)) + 1],
                       "playPrevChannel")

\* App.tsx 113-146: the commands of the remote that the store sees
RemoteCommands ==
  [type : {"channelUp", "channelDown", "stop"}]
    \cup [type : {"channelNumber"}, value : 0..(Len(ChannelsOne) + 1)]

handleCommand(cmd) ==
  CASE cmd.type = "channelUp" -> playNextChannel
    [] cmd.type = "channelDown" -> playPrevChannel
    [] cmd.type = "channelNumber" ->
         /\ cmd.value > 0 /\ cmd.value <= Len(channels)
         /\ setCurrentChannel(channels[cmd.value], "channelNumber")
    [] cmd.type = "stop" ->
         /\ currentChannel # NullChannel
         /\ setCurrentChannel(NullChannel, "stop")

\* part_001 389-403: the number typed on the keyboard, when its timer runs;
\* the player is shown while a channel plays
ChannelZap(typed) ==
  /\ currentChannel # NullChannel
  /\ typed - 1 >= 0 /\ typed - 1 < Len(channels)
  /\ setCurrentChannel(channels[typed], "channel zap")

Pins == {"1234"}

PinsTyped == {"1234", "0000"}

NextParental ==
  \/ \E url \in PlaylistUrls : handleUrlLoad(url)
  \/ \E pin \in Pins : handleSetPin(pin)
  \/ removePin
  \/ \E pin \in PinsTyped : unlockParental(pin)
  \/ lockParental
  \/ \E group \in GroupsOf(ChannelsOne) : toggleLockedGroup(group)
  \/ \E i \in 1..Len(ChannelsOne) : handleChannelClick(i)
  \/ playNextChannel
  \/ playPrevChannel
  \/ \E cmd \in RemoteCommands : handleCommand(cmd)
  \/ \E typed \in 0..(Len(ChannelsOne) + 1) : ChannelZap(typed)

SpecParental == Init /\ [][NextParental]_vars

\* ------------------------------------------------------------ the recorder
\* the names of the channels recorded
RecordedNames == {"News 24", "Cinema"}

\* recorder.ts 25-53: startRecording where recording is supported and
\* captureStream works; it returns false, changing nothing, while the
\* recorder in mediaRecorder is not inactive
startRecording(channelName) ==
  /\ Len(recorders) < MaxRecorders
  /\ ~(mediaRecorder # NullRecorder /\ recorders[mediaRecorder].state # "inactive")
  /\ recordedChunks' = <<>>
  /\ currentRecording' = channelName
  /\ recorders' = Append(recorders, [state |-> "recording", onstop |-> FALSE,
                                     stopping |-> FALSE, channelName |-> channelName])
  /\ mediaRecorder' = Len(recorders) + 1
  /\ UNCHANGED <<recordings, storeVars, channelVars,
               parseVars, queryVars, resolveVars, fetchVars>>

\* recorder.ts 44-46: a recorder that is recording hands over the data of a
\* time slice; its ondataavailable pushes to the module's recordedChunks
DataAvailable(r) ==
  /\ r \in 1..Len(recorders) /\ recorders[r].state = "recording"
  /\ Len(recordedChunks) < MaxChunks
  /\ recordedChunks' = Append(recordedChunks, r)
  /\ UNCHANGED <<mediaRecorder, currentRecording, recorders, recordings, storeVars, channelVars,
               parseVars, queryVars, resolveVars, fetchVars>>

\* recorder.ts 55-82 and 84-111: stopRecording and stopRecordingAsync up to
\* their return: onstop is set and stop() called, which makes the recorder
\* inactive at once and queues its last dataavailable and its stop event
stopRecording ==
  /\ mediaRecorder # NullRecorder /\ recorders[mediaRecorder].state # "inactive"
  /\ recorders' = [recorders EXCEPT ![mediaRecorder] =
                     [state |-> "inactive", onstop |-> TRUE, stopping |-> TRUE,
                      channelName |-> recorders[mediaRecorder].channelName]]
  /\ UNCHANGED <<mediaRecorder, recordedChunks, currentRecording, recordings,
               storeVars, channelVars, parseVars, queryVars, resolveVars, fetchVars>>

\* the queued events of recorder r run: the last dataavailable, if there is
\* data, then onstop (lines 59-78, 88-107), which builds the Recording from
\* the module's recordedChunks and currentRecording and resets the module
OnStop(r, hasData) ==
  /\ r \in 1..Len(recorders) /\ recorders[r].stopping /\ recorders[r].onstop
  /\ LET chunks == IF hasData /\ Len(recordedChunks) < MaxChunks
                   THEN Append(recordedChunks, r) ELSE recordedChunks
     IN  recordings' = Append(recordings,
                         [recorder |-> r,
                          channelName |-> IF currentRecording = NullRecording
                                          THEN "Unknown" ELSE currentRecording,
                          chunks |-> chunks])
  /\ recordedChunks' = <<>>
  /\ currentRecording' = NullRecording
  /\ mediaRecorder' = NullRecorder
  /\ recorders' = [recorders EXCEPT ![r].stopping = FALSE]
  /\ UNCHANGED <<storeVars, channelVars, parseVars, queryVars, resolveVars, fetchVars>>

NextRecorder ==
  \/ \E channelName \in RecordedNames : startRecording(channelName)
  \/ \E r \in 1..MaxRecorders : DataAvailable(r)
  \/ stopRecording
  \/ \E r \in 1..MaxRecorders, hasData \in BOOLEAN : OnStop(r, hasData)

SpecRecorder == Init /\ [][NextRecorder]_vars

\* ------------------------------------------------- the playlist auto-update
\* App.tsx 637-657, from handleLoadPlaylist (Sidebar 256-258): a click on a
\* saved playlist
loadSavedPlaylist(id) ==
  /\ \E i \in 1..Len(savedPlaylists) : savedPlaylists[i].id = id
  /\ MapHas(playlistStore, id)
  /\ channels' = MapGet(playlistStore, id).channels
  /\ currentChannel' = NullChannel
  /\ activePlaylistId' = id
  /\ lastStep' = [op |-> "loadSavedPlaylist"]
  /\ UNCHANGED <<parentalPin, parentalUnlocked, lockedGroups, savedPlaylists, playlistStore,
               playlistAutoUpdate, updates, clock,
               epgVars, refreshVars, parseVars, queryVars, resolveVars, fetchVars, recVars>>

\* App.tsx 603
setPlaylistAutoUpdate(enabled) ==
  /\ playlistAutoUpdate' = enabled
  /\ lastStep' = [op |-> "setPlaylistAutoUpdate"]
  /\ UNCHANGED <<channels, currentChannel, parentalPin, parentalUnlocked, lockedGroups,
               savedPlaylists, activePlaylistId, playlistStore, updates, clock,
               epgVars, refreshVars, parseVars, queryVars, resolveVars, fetchVars, recVars>>

\* savedPlaylists.find((p) => p.id === activePlaylistId): its position, 0
\* when there is none
ActivePlaylist ==
  FindIndex([i \in 1..Len(savedPlaylists) |-> savedPlaylists[i].id = activePlaylistId])

\* App.tsx 58-62, 72-78: the interval timer, set while the auto-update is
\* enabled (the interval is 360 minutes), calls doUpdate, which fetches the
\* url of the active playlist
doUpdate ==
  /\ playlistAutoUpdate
  /\ ActivePlaylist # 0
  /\ Len(updates) < MaxUpdates
  /\ updates' = Append(updates, [state |-> "pending",
                                 id |-> savedPlaylists[ActivePlaylist].id,
                                 url |-> savedPlaylists[ActivePlaylist].url])
  /\ lastStep' = [op |-> "doUpdate"]
  /\ UNCHANGED <<channels, currentChannel, parentalPin, parentalUnlocked, lockedGroups,
               savedPlaylists, activePlaylistId, playlistStore, playlistAutoUpdate, clock,
               epgVars, refreshVars, parseVars, queryVars, resolveVars, fetchVars, recVars>>

\* App.tsx 62-67: loadM3UFromURL returned channels to the i-th doUpdate, which
\* calls setPlaylist(result) (536-548)
UpdateReturn(i) ==
  /\ i \in 1..Len(updates) /\ updates[i].state = "pending"
  /\ Len(RemoteChannels(updates[i].url)) > 0
  /\ channels' = RemoteChannels(updates[i].url)
  /\ currentChannel' = NullChannel
  /\ epgDetectedUrl' = NullUrl
  /\ updates' = [updates EXCEPT ![i].state = "returned"]
  /\ lastStep' = [op |-> "update returned"]
  /\ UNCHANGED <<epgSources, epgData, dataUrl, epgUrl, epgLoading, epgError, epgLastRefresh,
               loads, cleared, caller, clock, parentalPin, parentalUnlocked, lockedGroups,
               savedPlaylists, activePlaylistId, playlistStore, playlistAutoUpdate,
               refreshVars, parseVars, queryVars, resolveVars, fetchVars, recVars>>

\* App.tsx 68-70: loadM3UFromURL threw
UpdateFail(i) ==
  /\ i \in 1..Len(updates) /\ updates[i].state = "pending"
  /\ updates' = [updates EXCEPT ![i].state = "returned"]
  /\ lastStep' = [op |-> "update failed"]
  /\ UNCHANGED <<channels, currentChannel, parentalPin, parentalUnlocked, lockedGroups,
               savedPlaylists, activePlaylistId, playlistStore, playlistAutoUpdate, clock,
               epgVars, refreshVars, parseVars, queryVars, resolveVars, fetchVars, recVars>>

NextPlaylist ==
  \/ \E url \in PlaylistUrls : handleUrlLoad(url)
  \/ \E id \in 1..MaxPlaylists : loadSavedPlaylist(id)
  \/ \E enabled \in BOOLEAN : setPlaylistAutoUpdate(enabled)
  \/ doUpdate
  \/ \E i \in 1..MaxUpdates : UpdateReturn(i)
  \/ \E i \in 1..MaxUpdates : UpdateFail(i)
  \/ \E i \in 1..Len(ChannelsOne) : handleChannelClick(i)

SpecPlaylist == Init /\ [][NextPlaylist]_vars

\* ------------------------------------------------------------------ claims

\* C1: a loadEPG(url) called while a load of the same url is pending starts
\* no fetch, so at most one load of a url is in flight at any time.
C1_OneLoadPerUrl ==
  \A url \in Urls :
    Cardinality({i \in 1..MaxLoads : Pending(i) /\ loads[i].url = url}) <= 1

\* C2: a load that fails leaves the guide as it was: neither the call of
\* loadEPG nor its catch branch changes epgData (or the refresh time), and
\* the failure records an error.
C2_FailedLoadKeepsGuide ==
  [][/\ lastStep'.op = "loadEPG" => epgData' = epgData
     /\ lastStep'.op = "fail" =>
          /\ epgData' = epgData
          /\ epgLastRefresh' = epgLastRefresh
          /\ epgUrl' = epgUrl
          /\ epgError' # NullError]_vars

C2_Witness ==
  /\ lastStep.op = "fail"
  /\ epgData # NullData
  /\ epgError # NullError

\* C3: once clearEPG has run, and until loadEPG is called again, the guide,
\* the url and the refresh time stay null, also when a load that was in
\* flight at the clear returns.
C3_LateResponseDropped ==
  cleared => epgData = NullData /\ epgUrl = NullUrl /\ epgLastRefresh = NullTime

\* C4: right after clearEPG, from whatever state, the guide, the url and the
\* refresh time are null and the store is idle: not loading, no error.
C4_ClearLeavesIdle ==
  lastStep.op = "clearEPG" =>
    /\ epgData = NullData
    /\ epgUrl = NullUrl
    /\ epgLastRefresh = NullTime
    /\ ~epgLoading
    /\ epgError = NullError

\* C5: in every guide parseXMLTV returns, each channel's program list is in
\* non-decreasing order of start (start of i <= start of j for i < j),
\* whatever the order of the programme elements and whether or not the
\* channel was declared.
C5_ProgramsSortedByStart ==
  parsed.ok =>
    \A e \in 1..Len(parsed.data.programs) :
      LET list == parsed.data.programs[e][2]
      IN  \A i, j \in 1..Len(list) :
            i < j => JsLe(list[i].start, list[j].start)

SortedByStart(list) ==
  \A i, j \in 1..Len(list) : i < j => JsLe(list[i].start, list[j].start)

AiringAt(p, t) == JsLe(p.start, t) /\ JsGt(p.stop, t)

\* what both forms of C6 say about a time inside exactly one program
C6_OneAiringIsReturned ==
  \A i \in 1..Len(qPrograms) :
    (AiringAt(qPrograms[i], qTime)
       /\ \A j \in 1..Len(qPrograms) : j # i => ~AiringAt(qPrograms[j], qTime))
    => qCall.result = Found(qPrograms[i])

\* C6 as stated: on a list sorted by start, getCurrentProgram returns none
\* before the first program's start and after the last program's stop (first
\* and last in list order), and the one airing program otherwise.
C6_NoneOutsideFirstAndLast ==
  (qCall.op = "getCurrentProgram" /\ SortedByStart(qPrograms) /\ qPrograms # <<>>) =>
    /\ JsGt(qPrograms[1].start, qTime) => qCall.result = NotFound
    /\ JsGt(qTime, qPrograms[Len(qPrograms)].stop) => qCall.result = NotFound
    /\ C6_OneAiringIsReturned

\* C6 amended: on a list sorted by start, getCurrentProgram returns none
\* before the first program's start and after the stop of every program of
\* the list, and the one airing program when exactly one program airs.
C6_NoneOutsideAllPrograms ==
  (qCall.op = "getCurrentProgram" /\ SortedByStart(qPrograms) /\ qPrograms # <<>>) =>
    /\ JsGt(qPrograms[1].start, qTime) => qCall.result = NotFound
    /\ (\A i \in 1..Len(qPrograms) : JsGt(qTime, qPrograms[i].stop))
         => qCall.result = NotFound
    /\ C6_OneAiringIsReturned

C6_Witness ==
  /\ qCall.op = "getCurrentProgram"
  /\ Len(qPrograms) = 2
  /\ SortedByStart(qPrograms)
  /\ \A i \in 1..2 : JsGt(qPrograms[i].stop, qPrograms[i].start)
                       /\ JsGt(qTime, qPrograms[i].stop)
  /\ qCall.result = NotFound

\* the scenario of the specification, in quarters of an hour from 10:00
News == [start |-> 0, stop |-> 2]

Weather == [start |-> 2, stop |-> 3]

\* C7: getCurrentProgram returns the first program in list order with
\* start <= now < stop, and none when no program has; at the instant one
\* program stops and the following starts, the following one is returned
\* (News 10:00-10:30, Weather 10:30-10:45: News at 10:15, Weather at 10:30).
C7_FirstAiringHalfOpen ==
  qCall.op = "getCurrentProgram" =>
    /\ qCall.result.found =>
         \E i \in 1..Len(qPrograms) :
           /\ qCall.result.program = qPrograms[i]
           /\ AiringAt(qPrograms[i], qTime)
           /\ \A j \in 1..(i - 1) : ~AiringAt(qPrograms[j], qTime)
    /\ ~qCall.result.found =>
         \A i \in 1..Len(qPrograms) : ~AiringAt(qPrograms[i], qTime)
    /\ (qPrograms = <<News, Weather>> /\ qTime = 1) => qCall.result = Found(News)
    /\ (qPrograms = <<News, Weather>> /\ qTime = 2) => qCall.result = Found(Weather)

C7_Witness ==
  /\ qCall.op = "getCurrentProgram"
  /\ qPrograms = <<News, Weather>>
  /\ qTime = 2
  /\ qCall.result = Found(Weather)

\* C8: getNextProgram returns the first program in list order whose start is
\* strictly after now, none when there is none; on a list sorted by start no
\* program starts after now and before the returned one; a program starting
\* at now is never returned (at 10:00 the next program is Weather).
C8_FirstStartingAfterNow ==
  qCall.op = "getNextProgram" =>
    /\ qCall.result.found =>
         \E i \in 1..Len(qPrograms) :
           /\ qCall.result.program = qPrograms[i]
           /\ JsGt(qPrograms[i].start, qTime)
           /\ \A j \in 1..(i - 1) : ~JsGt(qPrograms[j].start, qTime)
           /\ SortedByStart(qPrograms) =>
                \A k \in 1..Len(qPrograms) :
                  JsGt(qPrograms[k].start, qTime)
                    => JsLe(qPrograms[i].start, qPrograms[k].start)
    /\ ~qCall.result.found =>
         \A i \in 1..Len(qPrograms) : ~JsGt(qPrograms[i].start, qTime)
    /\ qCall.result.found => qCall.result.program.start # qTime
    /\ (qPrograms = <<News, Weather>> /\ qTime = 0) => qCall.result = Found(Weather)

C8_Witness ==
  /\ qCall.op = "getNextProgram"
  /\ qPrograms = <<News, Weather>>
  /\ qTime = 0
  /\ qCall.result = Found(Weather)

\* what both forms of C9 say of the program p shown at qTime
C9_ProgressOf(p) ==
  /\ qTime = p.start => PctIs(qCall.result, 0)
  /\ qTime >= p.stop => PctIs(qCall.result, 100)
  /\ \A later \in Instants :
       (p.start <= qTime /\ qTime <= later /\ later < p.stop)
         => PctLe(qCall.result, getProgramProgress(p, later))
  /\ (p = News /\ qTime = 1) => PctIs(qCall.result, 50)

\* C9 as stated: for every program, progress does not decrease as now moves
\* through [start, stop), is 0 at start and 100 at and after stop (News at
\* 10:15 is at 50).
C9_ProgressEveryProgram ==
  qCall.op = "getProgramProgress" => C9_ProgressOf(qPrograms[1])

\* C9 amended: the same, for every program whose stop is after its start.
C9_ProgressProperInterval ==
  (qCall.op = "getProgramProgress" /\ qPrograms[1].stop > qPrograms[1].start)
    => C9_ProgressOf(qPrograms[1])

C9_Witness ==
  /\ qCall.op = "getProgramProgress"
  /\ qPrograms[1].stop > qPrograms[1].start
  /\ qTime >= qPrograms[1].stop
  /\ PctIs(qCall.result, 100)

DisplayLookups == {"EPGOverlay", "ChannelBanner", "findProgram", "findEpgProgram", "findPrograms"}

HasExactId == rChannel.tvgId # Undefined /\ MapHas(rGuide.channels, rChannel.tvgId)

CaseIds ==
  {rGuide.channels[i][1] : i \in {j \in 1..Len(rGuide.channels) :
     rChannel.tvgId # Undefined
       /\ ToLowerCase(rGuide.channels[j][1]) = ToLowerCase(rChannel.tvgId)}}

\* C11: when the playlist channel's tvgId equals a guide channel id byte for
\* byte, every lookup resolves to that guide channel: the display lookups
\* show that channel's program list (empty when it is empty) and logo
\* enrichment takes that channel, whatever else matches ignoring case or by
\* name.
C11_ExactIdAlwaysWins ==
  (rCall.op # "none" /\ HasExactId) =>
    IF rCall.op = "enrichChannelLogos"
    THEN rCall.result.id = rChannel.tvgId
    ELSE rCall.result.programs = MapGet(rGuide.programs, rChannel.tvgId)

\* C12: when no guide channel id equals tvgId byte for byte and some guide
\* channel id equals it ignoring case, the lookup resolves to such a channel
\* and the name tier is not consulted (tvgId BBC1.uk, name BBC One HD against
\* guide channel bbc1.uk, BBC One: the case-insensitive tier).
C12_CaseIdBeforeName ==
  (rCall.op # "none" /\ ~HasExactId /\ CaseIds # {}) =>
    /\ rCall.result.tier # "name"
    /\ IF rCall.op = "enrichChannelLogos"
       THEN rCall.result.id \in CaseIds
       ELSE \E id \in CaseIds : rCall.result.programs = MapGet(rGuide.programs, id)

\* C13: a match of the name tier, at every lookup, is between names whose
\* normalized forms are equal, or are both longer than 3 with one containing
\* the other.
C13_NameMatchGuarded ==
  (rCall.op # "none" /\ rCall.result.tier = "name") =>
    LET norm == Normalize(rCall.result.name)
        epgNorm == Normalize(MapGet(rGuide.channels, rCall.result.id).name)
    IN  \/ norm = epgNorm
        \/ /\ Len(norm) > 3 /\ Len(epgNorm) > 3
           /\ Includes(epgNorm, norm) \/ Includes(norm, epgNorm)

\* C20: for every playlist channel and guide, logo enrichment resolves the
\* guide channel (or the no match) that the display lookups resolve.
C20_EnrichmentAgreesWithDisplay ==
  rCall.op = "enrichChannelLogos" =>
    /\ rCall.result.id = EPGOverlay(rChannel, rGuide).id
    /\ rCall.result.id = findEpgProgram(rChannel, rGuide).id
    /\ rCall.result.id = findPrograms(rChannel, rGuide).id

\* the endpoints in the order of the fetch
EndpointOrder == <<"direct">> \o CORS_PROXIES

ExhaustedError == "Failed to fetch EPG data. Direct fetch and CORS proxies all failed."

\* C14: a fetch contacts the url itself first and then the proxies in list
\* order, each at most once (at most 1 + |proxies| attempts); it stops at the
\* first endpoint that answers; it fails, with the all-failed error, only
\* when the direct attempt and every proxy have failed.
C14_FetchOrderAndStop ==
  fCall.op = "fetchWithCorsProxy" =>
    LET r == fCall.result
        n == Len(r.attempts)
    IN  /\ n >= 1 /\ n <= 1 + Len(CORS_PROXIES)
        /\ \A i \in 1..n : r.attempts[i] = EndpointOrder[i]
        /\ \A i \in 1..(n - 1) : ~Answers(fRequest.net[r.attempts[i]])
        /\ r.ok => /\ Answers(fRequest.net[r.attempts[n]])
                   /\ r.response = fRequest.net[r.attempts[n]]
        /\ ~r.ok => /\ r.attempts = EndpointOrder
                    /\ \A e \in Endpoints : ~Answers(fRequest.net[e])
                    /\ r.error = ExhaustedError

C14_Witness ==
  /\ fCall.op = "fetchWithCorsProxy"
  /\ fCall.result.ok
  /\ fCall.result.attempts = EndpointOrder
  /\ fRequest.net["direct"].kind = "throw"
  /\ fRequest.net[CORS_PROXIES[1]].kind = "status"

\* an answer whose body is empty
EmptyBody(reply) == ~reply.body.gzip /\ reply.body.text.kind = "empty"

\* C15: the fetch accepts only an answer with a non-empty body, going on to
\* the next endpoint after an empty one, and a load reports the empty-file
\* error only when no endpoint gives a non-empty answer.
C15_EmptyAnswerNotAccepted ==
  /\ (fCall.op = "fetchWithCorsProxy" /\ fCall.result.ok)
       => ~EmptyBody(fCall.result.response)
  /\ (fCall.op = "loadEPGFromURL" /\ fCall.result = Failure("EPG file is empty"))
       => \A e \in Endpoints :
            ~(Answers(fRequest.net[e]) /\ ~EmptyBody(fRequest.net[e]))

\* what a load of a .gz url reports when DecompressionStream exists and the
\* stream is not gzip
NotGzipNet ==
  [e \in Endpoints |->
     [kind |-> "status", ok |-> TRUE,
      body |-> [gzip |-> FALSE, text |-> [kind |-> "other"]]]]

DecompressionFailed == loadEPGFromURL(UrlGz, NotGzipNet, TRUE)

IsGzipUrl(url) == EndsWith(url, GzSuffix) \/ EndsWith(url, GzipSuffix)

\* C16: a load of a gzip-suffixed url without DecompressionStream fails with
\* an error that is not the one of a failed decompression, and neither the
\* XML sniff nor the parser sees the body.
C16_UnsupportedIsItsOwnError ==
  (/\ fCall.op = "loadEPGFromURL"
   /\ IsGzipUrl(fRequest.url)
   /\ ~fRequest.hasDecompressionStream
   /\ fetchWithCorsProxy(fRequest.url, fRequest.net).ok) =>
    /\ ~fCall.result.ok
    /\ fCall.result.error \notin {"EPG file is empty", "EPG response is not valid XML.",
                                  "Invalid XMLTV format"}
    /\ fCall.result \notin DecompressionFailed

\* C17: a document without channels and programmes is rejected, so the guide
\* in the store is never one with no channel and no program.
C17_NoEmptyGuide ==
  epgData # NullData =>
    \/ epgData.channels # <<>>
    \/ \E i \in 1..Len(epgData.programs) : epgData.programs[i][2] # <<>>

\* the callers of loadEPG that are a click of the user
UserCallers == {"handleSelectSource", "refresh button", "load direct", "grab button"}

\* C18: the url-tvg hint of a playlist is offered, not loaded: no loadEPG is
\* called for it until the user asks (a click, or the refresh timer of a
\* source the user made active).
C18_DetectedUrlNotAutoLoaded ==
  lastStep.op = "loadEPG" => caller \in UserCallers \cup {"refresh timer"}

\* what C19 says of a state: at most one interval timer is pending, it is
\* the one refreshTimerRef holds, and none is pending while auto-refresh is
\* disabled, no url is active or EPGGrabber is not mounted
C19_TimerState ==
  /\ Cardinality(timers) <= 1
  /\ timers \subseteq {refreshTimerRef}
  /\ (~epgAutoRefresh \/ epgUrl = NullUrl \/ ~mounted) => timers = {}

\* C19: auto-refresh timers never overlap: every step leaves at most one
\* timer pending and none while auto-refresh is disabled or no url is
\* active, and a step that changes the enabled flag, the interval or the
\* active url cancels the timer that was pending.
C19_TimersNeverOverlap ==
  [][/\ C19_TimerState'
     /\ <<epgAutoRefresh, epgRefreshInterval, epgUrl>>' # <<epgAutoRefresh, epgRefreshInterval, epgUrl>>
          => timers \cap timers' = {}]_vars

C19_Witness ==
  /\ lastStep.op = "setEpgRefreshInterval"
  /\ epgRefreshInterval = 30
  /\ timers = {2}
  /\ refreshTimerRef = 2

\* C21: a restart keeps epgUrl, epgAutoRefresh, epgRefreshInterval,
\* epgLastRefresh and epgSources as they were just before it, and leaves
\* epgData null.
C21_PersistedSurviveRestart ==
  [][lastStep'.op = "restart" =>
       /\ epgUrl' = epgUrl
       /\ epgAutoRefresh' = epgAutoRefresh
       /\ epgRefreshInterval' = epgRefreshInterval
       /\ epgLastRefresh' = epgLastRefresh
       /\ epgSources' = epgSources
       /\ epgData' = NullData]_vars

\* a program's interval intersects [windowStart, windowEnd)
Intersects(p, w) == p.start # NaN /\ p.stop # NaN /\ p.stop > w.start /\ p.start < w.end

\* C22: windowOverlap returns exactly the programs whose interval intersects
\* [windowStart, windowEnd), in list order, and each returned program's
\* clipped values satisfy windowStart <= clippedStart <= clippedStop <=
\* windowEnd.
C22_WindowOverlapClipped ==
  qCall.op = "windowOverlap" =>
    LET row == qCall.result
    IN  /\ [i \in 1..Len(row) |-> row[i].program]
             = SelectSeq(qPrograms, LAMBDA p : Intersects(p, qWindow))
        /\ \A i \in 1..Len(row) :
             /\ qWindow.start <= row[i].pStart
             /\ row[i].pStart <= row[i].pEnd
             /\ row[i].pEnd <= qWindow.end

\* C23: epgData changes to a new guide only when a load completes with
\* success, and that step sets epgLastRefresh to the time of the step; a
\* failed load changes neither epgData nor epgLastRefresh.
C23_GuideAndTimestampTogether ==
  [][/\ (epgData' # epgData /\ epgData' # NullData) => lastStep'.op = "succeed"
     /\ lastStep'.op = "succeed" =>
          /\ epgData' \in {r.data : r \in {x \in LoadResults[lastStep'.url] : x.ok}}
          /\ epgLastRefresh' = clock'
          /\ epgLastRefresh' # NullTime
     /\ epgLastRefresh' # epgLastRefresh =>
          lastStep'.op \in {"succeed", "clearEPG"}
     /\ lastStep'.op = "fail" => UNCHANGED <<epgData, epgLastRefresh>>]_vars

\* a second load has succeeded, later than the first
C23_Witness ==
  /\ lastStep.op = "succeed"
  /\ \A i \in 1..MaxLoads : loads[i].state = "returned"
  /\ epgData # NullData
  /\ epgLastRefresh = MaxClock

\* the guide channels, by position, that one of the playlist channel's names
\* matches in the name tier
NameCandidates ==
  {i \in 1..Len(rGuide.channels) :
     \E k \in 1..Len(Truthy(<<rChannel.name, rChannel.tvgName>>)) :
        LET norm == Normalize(Truthy(<<rChannel.name, rChannel.tvgName>>)[k])
        IN  norm # <<>> /\ NameMatchUnguarded(norm, Normalize(rGuide.channels[i][2].name))}

\* the guide's keys, by position, equal to tvgId once both are lowered
CaseCandidates ==
  {i \in 1..Len(rGuide.programs) :
     /\ rChannel.tvgId # Undefined
     /\ ToLowerCase(rGuide.programs[i][1]) = ToLowerCase(rChannel.tvgId)}

First(S) == CHOOSE i \in S : \A j \in S : i <= j

\* C24: when the case-insensitive tier or the name tier wins in EPGOverlay
\* or findEpgProgram, the guide channel returned is the first one in the
\* guide's insertion order that satisfies the tier, whether or not it has
\* programs and whichever of the two names it matches.
C24_FirstCandidateWins ==
  (rCall.op \in {"EPGOverlay", "findEpgProgram"}) =>
     /\ rCall.result.tier = "name" =>
          rCall.result.id = rGuide.channels[First(NameCandidates)][1]
     /\ rCall.result.tier = "case" =>
          rCall.result.id = rGuide.programs[First(CaseCandidates)][1]

\* a loadEPG call has started and has not completed
InFlight == \E i \in 1..MaxLoads : Pending(i)

\* C25: whenever epgData is non-null and no load is in flight, epgData was
\* produced by a load of the url in epgUrl.
C25_GuideIsOfStoredUrl ==
  (epgData # NullData /\ ~InFlight) => dataUrl = epgUrl

\* C26: epgLoading is true exactly when a loadEPG call has started and has
\* not completed.
C26_LoadingFlagExact == epgLoading <=> InFlight

\* C27: when no load is in flight and the load that completed last
\* succeeded, epgError is null.
C27_SuccessLeavesNoError ==
  (lastStep.op = "succeed" /\ ~InFlight) => epgError = NullError

\* the lock is on: a PIN is set, the lock is closed and a group is locked
Locked == parentalPin # NullPin /\ ~parentalUnlocked /\ Len(lockedGroups) > 0

Navigation == {"playNextChannel", "playPrevChannel", "channelNumber", "channel zap"}

\* C28: while the lock is on, no playNextChannel, playPrevChannel, keyboard
\* channel number or remote channelNumber, channelUp or channelDown makes a
\* channel of a locked group the current channel.
C28_LockNotBypassed ==
  [][(Locked /\ lastStep'.op \in Navigation) =>
       (currentChannel' = NullChannel \/ ~Includes1(lockedGroups, currentChannel'.group))]_vars

\* the recorders that are recording
Active == {r \in 1..Len(recorders) : recorders[r].state = "recording"}

\* C29: at most one recording is active at a time; a recorder that is
\* recording is the one in mediaRecorder, with its channel in
\* currentRecording, also after the onstop of an earlier recorder has run;
\* and every Recording is built from the chunks and the channel of its own
\* recorder.
C29_RecorderNotClobbered ==
  /\ Cardinality(Active) <= 1
  /\ \A r \in Active :
       mediaRecorder = r /\ currentRecording = recorders[r].channelName
  /\ \A i \in 1..Len(recordings) :
       /\ recordings[i].channelName = recorders[recordings[i].recorder].channelName
       /\ \A k \in 1..Len(recordings[i].chunks) :
            recordings[i].chunks[k] = recordings[i].recorder

\* C30: once no fetch of the auto-update is in flight, the channels shown
\* are those of the playlist that activePlaylistId names.
C30_ChannelsOfActivePlaylist ==
  ((\A i \in 1..Len(updates) : updates[i].state # "pending") /\ ActivePlaylist # 0) =>
     channels = MapGet(playlistStore, activePlaylistId).channels

====
